---------------------------- MODULE Spec2Model ----------------------------
(***************************************************************************)
(* A model of the shader node-graph editor of src/studio/shader_editor.cpp *)
(* (LumixEngine): the node heap, the two stage collections, the            *)
(* connection operations, the four undoable commands, the undo stack, the  *)
(* session file and code generation.                                       *)
(*                                                                         *)
(* Node objects live at addresses (Addr); pins hold addresses, as the      *)
(* code's Node* do.  A freed address may be handed out again by the        *)
(* allocator, so a stale pointer can come to alias another node.           *)
(* Undefined behaviour is recorded in the field "trap" of the editor       *)
(* value: "hard" (null dereference, wild read: the process stops) or       *)
(* "soft" (failed ASSERT, use after free, write outside an array: the      *)
(* build either stops or carries on with the statement's benign effect).   *)
(***************************************************************************)
EXTENDS Integers, Sequences, FiniteSets, TLC

VARIABLES heap,                   \* Addr -> node object (the allocator's memory)
          m_fragment_nodes,       \* sequence of Addr
          m_vertex_nodes,         \* sequence of Addr
          m_last_node_id,
          m_undo_stack,           \* sequence of command records
          m_undo_stack_idx,       \* -1 .. Len(m_undo_stack) - 1
          m_current_node_id,      \* id of the node last right-clicked, -1 at start
          m_current_shader_type,  \* "VERTEX" | "FRAGMENT"
          m_path,                 \* path of the session file, "" while there is none
          m_file,                 \* content of the session file, NoFile before a save
          fault,                  \* NoFault, or the operation and trap the process stopped at
          ops,                    \* user operations performed so far
          hist,                   \* history of the last operation (specifications that record it)
          m_resources,            \* ResourceManagerBase: path -> resource object, NoResource if none
          resources               \* the Resource objects createResource has made

vars == <<heap, m_fragment_nodes, m_vertex_nodes, m_last_node_id, m_undo_stack,
          m_undo_stack_idx, m_current_node_id, m_current_shader_type, m_path, m_file, fault, ops,
          hist, m_resources, resources>>

(***************************************************************************)
(* Bounds of the model.                                                    *)
(***************************************************************************)
MaxAddr  == 4    \* node objects the heap can hold at once
MaxNodes == 4    \* live nodes the Add menu is used up to
MaxId    == 5    \* value m_last_node_id is driven up to
MaxStack == 3    \* commands the undo stack is filled up to
MaxOps   == 7    \* user operations in a session
MaxCoord == 1    \* canvas coordinates 0 .. MaxCoord
MaxRes   == 3    \* Resource objects that can exist at once
MaxCalls == 6    \* calls made to a resource manager

NULL == 0
Addr == 1..MaxAddr

\* The paths resources are asked for by, and where Resource objects live.
Paths == {"a.res", "b.res"}

Res == 1..MaxRes

NoResource == 0

NoObject == [m_path |-> "", m_ref_count |-> 0, m_state |-> "NONE"]
Coords == 0..MaxCoord
Pos  == {<<x, 0>> : x \in Coords}
StartPos == <<50, 50>>
GarbagePos == <<-1, -1>>     \* bytes of another object read as an ImVec2

(***************************************************************************)
(* Lumix::Array helpers, indices 0-based as in the code.                   *)
(***************************************************************************)
IndexOf(s, x) ==
    IF \E i \in 1..Len(s) : s[i] = x
    THEN (CHOOSE i \in 1..Len(s) : s[i] = x /\ \A j \in 1..(i - 1) : s[j] # x) - 1
    ELSE -1

EraseItem(s, x) ==
    LET i == IndexOf(s, x)
    IN IF i < 0 THEN s ELSE SubSeq(s, 1, i) \o SubSeq(s, i + 2, Len(s))

InRange(s, i) == i >= 0 /\ i < Len(s)

Nulls(n) == [i \in 1..n |-> NULL]

(***************************************************************************)
(* Node kinds: the pin arrays and the default payload each constructor     *)
(* sets up.                                                                *)
(***************************************************************************)
NodeTypes == {"VERTEX_INPUT", "VERTEX_OUTPUT", "POSITION_OUTPUT", "FRAGMENT_INPUT",
              "FRAGMENT_OUTPUT", "FLOAT_CONST", "COLOR_CONST", "SAMPLE", "MIX",
              "UNIFORM", "VEC4_MERGE", "MULTIPLY", "BUILTIN_UNIFORM"}

InputsCount(type) ==
    CASE type = "MULTIPLY"        -> 2
      [] type = "VEC4_MERGE"      -> 5
      [] type = "MIX"             -> 3
      [] type = "SAMPLE"          -> 1
      [] type = "VERTEX_OUTPUT"   -> 1
      [] type = "POSITION_OUTPUT" -> 1
      [] type = "FRAGMENT_OUTPUT" -> 1
      [] OTHER                    -> 0

OutputsCount(type) ==
    IF type \in {"VERTEX_OUTPUT", "POSITION_OUTPUT", "FRAGMENT_OUTPUT"} THEN 0 ELSE 1

\* The payload a constructor leaves ([none |-> 0] for a kind without one).
DefaultPayload(type) ==
    CASE type = "FLOAT_CONST"     -> [m_value |-> 0]
      [] type = "UNIFORM"         -> [m_name |-> "", m_value_type |-> "VEC4"]
      [] type = "SAMPLE"          -> [m_texture |-> 0]
      [] type = "VERTEX_OUTPUT"   -> [m_output_idx |-> 0]
      [] type = "FRAGMENT_INPUT"  -> [m_attribute |-> 0]
      [] type = "VERTEX_INPUT"    -> [m_input |-> "POSITION"]
      [] type = "BUILTIN_UNIFORM" -> [m_uniform |-> "MODEL_MTX"]
      [] type = "COLOR_CONST"     -> [m_color |-> <<0, 0, 0, 0>>]
      [] OTHER                    -> [none |-> 0]

\* NODE_TYPES: the kinds the Add menu offers in each stage.
IsFrag(type) == type \in {"MIX", "SAMPLE", "FRAGMENT_INPUT", "FRAGMENT_OUTPUT", "COLOR_CONST",
                          "FLOAT_CONST", "UNIFORM", "VEC4_MERGE", "MULTIPLY", "BUILTIN_UNIFORM"}
IsVert(type) == type \in {"MIX", "SAMPLE", "VERTEX_INPUT", "VERTEX_OUTPUT", "COLOR_CONST",
                          "FLOAT_CONST", "UNIFORM", "VEC4_MERGE", "MULTIPLY", "BUILTIN_UNIFORM"}
LegalIn(type, shader_type) == IF shader_type = "FRAGMENT" THEN IsFrag(type) ELSE IsVert(type)

\* Memory no node lives in.  The id last stored there stays readable.
FreeCell(id) ==
    [alloc |-> FALSE, m_id |-> id, m_type |-> "", m_pos |-> <<0, 0>>,
     m_inputs |-> <<>>, m_outputs |-> <<>>, m_payload |-> [none |-> 0]]

\* The object createNode builds: Node::Node plus the kind's constructor.
\* m_id is not set by any constructor: it keeps what the memory held.
NewNode(type, old_id) ==
    [alloc |-> TRUE, m_id |-> old_id, m_type |-> type, m_pos |-> <<0, 0>>,
     m_inputs |-> Nulls(InputsCount(type)), m_outputs |-> Nulls(OutputsCount(type)),
     m_payload |-> DefaultPayload(type)]

(***************************************************************************)
(* The editor value the operations transform.                              *)
(***************************************************************************)
Worse(t1, t2) ==
    IF t1 = "hard" \/ t2 = "hard" THEN "hard"
    ELSE IF t1 = "soft" \/ t2 = "soft" THEN "soft" ELSE "none"

Trap(ed, t) == [ed EXCEPT !.trap = Worse(@, t)]

\* Dereferencing pointer p: null stops the process, freed memory is a use after free.
Touch(ed, p) ==
    IF p = NULL THEN Trap(ed, "hard")
    ELSE IF ~ed.heap[p].alloc THEN Trap(ed, "soft") ELSE ed

Halted(ed) == ed.trap = "hard"

createNode(ed, type, a) ==
    [ed EXCEPT !.heap[a] = NewNode(type, ed.heap[a].m_id)]

Nodes(ed) == ed.frag \o ed.vert

getNodeByID(ed, id) ==
    LET all == Nodes(ed)
    IN IF \E i \in 1..Len(all) : ed.heap[all[i]].m_id = id
       THEN all[CHOOSE i \in 1..Len(all) :
                    /\ ed.heap[all[i]].m_id = id
                    /\ \A j \in 1..(i - 1) : ed.heap[all[j]].m_id # id]
       ELSE NULL


(***************************************************************************)
(* Connection model.                                                       *)
(***************************************************************************)
\* Body applied to value: a local name for a value that is computed once.
With(value, Body(_)) == Body(value)

\* removeConnection, for a pin that is an input of node.  ASSERT(index >= 0)
\* guards a write that lands outside the array when it fails.
removeInput(ed, node, pin_index) ==
    IF node = NULL \/ ~InRange(ed.heap[node].m_inputs, pin_index) THEN Trap(ed, "hard")
    ELSE IF ed.heap[node].m_inputs[pin_index + 1] = NULL THEN ed
    ELSE LET peer  == ed.heap[node].m_inputs[pin_index + 1]
             index == IndexOf(ed.heap[peer].m_outputs, node)
         IN IF index < 0
            THEN [Trap(ed, "soft") EXCEPT !.heap[node].m_inputs[pin_index + 1] = NULL]
            ELSE [Touch(ed, peer) EXCEPT !.heap[peer].m_outputs[index + 1] = NULL,
                                         !.heap[node].m_inputs[pin_index + 1] = NULL]

\* removeConnection, for a pin that is an output of node.
removeOutput(ed, node, pin_index) ==
    IF node = NULL \/ ~InRange(ed.heap[node].m_outputs, pin_index) THEN Trap(ed, "hard")
    ELSE IF ed.heap[node].m_outputs[pin_index + 1] = NULL THEN ed
    ELSE LET peer  == ed.heap[node].m_outputs[pin_index + 1]
             index == IndexOf(ed.heap[peer].m_inputs, node)
         IN IF index < 0
            THEN [Trap(ed, "soft") EXCEPT !.heap[node].m_outputs[pin_index + 1] = NULL]
            ELSE [Touch(ed, peer) EXCEPT !.heap[peer].m_inputs[index + 1] = NULL,
                                         !.heap[node].m_outputs[pin_index + 1] = NULL]

\* A removeConnection that leaves the pin and its peer alone.
KeepConnection(ed, node, pin_index, is_input) == ed

removeConnection(ed, node, pin_index, is_input) ==
    IF Halted(ed) THEN ed
    ELSE IF is_input THEN removeInput(ed, node, pin_index)
    ELSE removeOutput(ed, node, pin_index)

\* p->m_outputs[i] = v and p->m_inputs[i] = v.  A write outside the array (any
\* write to memory that holds no node is one) is a soft trap that writes nothing.
SetOutput(ed, p, i, v) ==
    IF Halted(ed) THEN ed
    ELSE IF p = NULL THEN Trap(ed, "hard")
    ELSE IF ~InRange(ed.heap[p].m_outputs, i) THEN Trap(ed, "soft")
    ELSE [ed EXCEPT !.heap[p].m_outputs[i + 1] = v]

SetInput(ed, p, i, v) ==
    IF Halted(ed) THEN ed
    ELSE IF p = NULL THEN Trap(ed, "hard")
    ELSE IF ~InRange(ed.heap[p].m_inputs, i) THEN Trap(ed, "soft")
    ELSE [ed EXCEPT !.heap[p].m_inputs[i + 1] = v]

(***************************************************************************)
(* Destruction of a node.                                                  *)
(***************************************************************************)
\* destroyNode's first loop: the peers feeding node forget it.
RECURSIVE ClearInputPeers(_, _, _)
ClearInputPeers(ed, node, i) ==
    IF i > Len(ed.heap[node].m_inputs) THEN ed
    ELSE IF ed.heap[node].m_inputs[i] = NULL THEN ClearInputPeers(ed, node, i + 1)
    ELSE ClearInputPeers(
            SetOutput(ed, ed.heap[node].m_inputs[i],
                      IndexOf(ed.heap[ed.heap[node].m_inputs[i]].m_outputs, node), NULL),
            node, i + 1)

\* destroyNode's second loop: the peers fed by node forget it.
RECURSIVE ClearOutputPeers(_, _, _)
ClearOutputPeers(ed, node, i) ==
    IF i > Len(ed.heap[node].m_outputs) THEN ed
    ELSE IF ed.heap[node].m_outputs[i] = NULL THEN ClearOutputPeers(ed, node, i + 1)
    ELSE ClearOutputPeers(
            SetInput(ed, ed.heap[node].m_outputs[i],
                     IndexOf(ed.heap[ed.heap[node].m_outputs[i]].m_inputs, node), NULL),
            node, i + 1)

\* ~Node's first loop: eraseItem(this) on the inputs of each output peer.
RECURSIVE EraseFromOutputPeers(_, _, _)
EraseFromOutputPeers(ed, node, i) ==
    IF i > Len(ed.heap[node].m_outputs) THEN ed
    ELSE IF ed.heap[node].m_outputs[i] = NULL THEN EraseFromOutputPeers(ed, node, i + 1)
    ELSE EraseFromOutputPeers(
            [Touch(ed, ed.heap[node].m_outputs[i])
                EXCEPT !.heap[ed.heap[node].m_outputs[i]].m_inputs = EraseItem(@, node)],
            node, i + 1)

\* ~Node's second loop: eraseItem(this) on the outputs of each input peer.
RECURSIVE EraseFromInputPeers(_, _, _)
EraseFromInputPeers(ed, node, i) ==
    IF i > Len(ed.heap[node].m_inputs) THEN ed
    ELSE IF ed.heap[node].m_inputs[i] = NULL THEN EraseFromInputPeers(ed, node, i + 1)
    ELSE EraseFromInputPeers(
            [Touch(ed, ed.heap[node].m_inputs[i])
                EXCEPT !.heap[ed.heap[node].m_inputs[i]].m_outputs = EraseItem(@, node)],
            node, i + 1)

\* LUMIX_DELETE(node): the destructor, then the memory is given back.  Deleting
\* memory that holds no node is a double free: a soft trap that frees nothing.
DeleteNode(ed, node) ==
    IF ~ed.heap[node].alloc THEN Trap(ed, "soft")
    ELSE [EraseFromInputPeers(EraseFromOutputPeers(ed, node, 1), node, 1)
             EXCEPT !.heap[node] = FreeCell(@.m_id)]

destroyNode(ed, node) ==
    IF Halted(ed) THEN ed
    ELSE IF node = NULL THEN Trap(ed, "hard")
    ELSE [DeleteNode(ClearOutputPeers(ClearInputPeers(Touch(ed, node), node, 1), node, 1), node)
             EXCEPT !.frag = EraseItem(@, node), !.vert = EraseItem(@, node)]

addNode(ed, node, pos, type) ==
    [ed EXCEPT !.frag = IF type = "FRAGMENT" THEN Append(@, node) ELSE @,
               !.vert = IF type = "FRAGMENT" THEN @ ELSE Append(@, node),
               !.heap[node].m_pos = pos,
               !.heap[node].m_id = ed.last + 1,
               !.last = ed.last + 1]

(***************************************************************************)
(* Serialization of one node (saveNode, saveNodeConnections, loadNode,     *)
(* loadNodeConnections).                                                   *)
(***************************************************************************)
\* Node::save of each kind: what it writes after id, type and position.
\* UniformNode::save writes m_type, the node's kind, and nothing else.
SavePayload(n) ==
    CASE n.m_type = "FLOAT_CONST"     -> <<n.m_payload.m_value>>
      [] n.m_type = "COLOR_CONST"     -> <<n.m_payload.m_color>>
      [] n.m_type = "SAMPLE"          -> <<n.m_payload.m_texture>>
      [] n.m_type = "VERTEX_INPUT"    -> <<n.m_payload.m_input>>
      [] n.m_type = "FRAGMENT_INPUT"  -> <<n.m_payload.m_attribute>>
      [] n.m_type = "BUILTIN_UNIFORM" -> <<n.m_payload.m_uniform>>
      [] n.m_type = "UNIFORM"         -> <<n.m_type>>
      [] OTHER                        -> <<>>

\* Node::load of each kind, applied to the freshly constructed node n.
LoadPayload(n, saved) ==
    CASE n.m_type = "FLOAT_CONST"     -> [n EXCEPT !.m_payload.m_value = saved[1]]
      [] n.m_type = "COLOR_CONST"     -> [n EXCEPT !.m_payload.m_color = saved[1]]
      [] n.m_type = "SAMPLE"          -> [n EXCEPT !.m_payload.m_texture = saved[1]]
      [] n.m_type = "VERTEX_INPUT"    -> [n EXCEPT !.m_payload.m_input = saved[1]]
      [] n.m_type = "FRAGMENT_INPUT"  -> [n EXCEPT !.m_payload.m_attribute = saved[1]]
      [] n.m_type = "BUILTIN_UNIFORM" -> [n EXCEPT !.m_payload.m_uniform = saved[1]]
      [] n.m_type = "UNIFORM"         -> [n EXCEPT !.m_type = saved[1]]
      [] OTHER                        -> n

saveNode(ed, node) ==
    LET n == ed.heap[node]
    IN [id |-> n.m_id, type |-> n.m_type, pos |-> n.m_pos, payload |-> SavePayload(n)]

\* One pin as written: the peer's id and the index of node among the peer's pins
\* of the other direction, or <<-1, -1>> for an empty pin.
SavedInput(ed, node, i) ==
    LET peer == ed.heap[node].m_inputs[i]
    IN IF peer = NULL THEN <<-1, -1>>
       ELSE <<ed.heap[peer].m_id, IndexOf(ed.heap[peer].m_outputs, node)>>

SavedOutput(ed, node, i) ==
    LET peer == ed.heap[node].m_outputs[i]
    IN IF peer = NULL THEN <<-1, -1>>
       ELSE <<ed.heap[peer].m_id, IndexOf(ed.heap[peer].m_inputs, node)>>

saveNodeConnections(ed, node) ==
    [inputs  |-> [i \in 1..Len(ed.heap[node].m_inputs)  |-> SavedInput(ed, node, i)],
     outputs |-> [i \in 1..Len(ed.heap[node].m_outputs) |-> SavedOutput(ed, node, i)]]

\* Whether writing node's record reads memory that holds no node.
SaveTouches(ed, node) ==
    \/ \E i \in 1..Len(ed.heap[node].m_inputs) :
          ed.heap[node].m_inputs[i] # NULL /\ ~ed.heap[ed.heap[node].m_inputs[i]].alloc
    \/ \E i \in 1..Len(ed.heap[node].m_outputs) :
          ed.heap[node].m_outputs[i] # NULL /\ ~ed.heap[ed.heap[node].m_outputs[i]].alloc

\* loadNode: the node is built at address a, gets the saved id, joins the
\* collection of shader_type, then position and payload are read.
loadNode(ed, snap, shader_type, a) ==
    LET e1 == createNode(ed, snap.type, a)
        e2 == [e1 EXCEPT !.heap[a].m_id = snap.id]
        e3 == IF shader_type = "FRAGMENT" THEN [e2 EXCEPT !.frag = Append(@, a)]
              ELSE [e2 EXCEPT !.vert = Append(@, a)]
        e4 == [e3 EXCEPT !.heap[a].m_pos = snap.pos]
    IN [e4 EXCEPT !.heap[a] = LoadPayload(@, snap.payload)]

\* One input pin read back: the pin is set, then the peer's pin the record names.
LoadInput(ed, pin, node, i, peer) ==
    IF peer = NULL \/ ~InRange(ed.heap[node].m_inputs, i) THEN SetInput(ed, node, i, peer)
    ELSE SetOutput(SetInput(ed, node, i, peer), peer, pin[2], node)

RECURSIVE LoadInputs(_, _, _, _)
LoadInputs(ed, pins, node, i) ==
    IF Halted(ed) \/ i > Len(pins) THEN ed
    ELSE LoadInputs(
            LoadInput(ed, pins[i], node, i - 1,
                      IF pins[i][1] < 0 THEN NULL ELSE getNodeByID(ed, pins[i][1])),
            pins, node, i + 1)

LoadOutput(ed, pin, node, i, peer) ==
    IF peer = NULL \/ ~InRange(ed.heap[node].m_outputs, i) THEN SetOutput(ed, node, i, peer)
    ELSE SetInput(SetOutput(ed, node, i, peer), peer, pin[2], node)

RECURSIVE LoadOutputs(_, _, _, _)
LoadOutputs(ed, pins, node, i) ==
    IF Halted(ed) \/ i > Len(pins) THEN ed
    ELSE LoadOutputs(
            LoadOutput(ed, pins[i], node, i - 1,
                       IF pins[i][1] < 0 THEN NULL ELSE getNodeByID(ed, pins[i][1])),
            pins, node, i + 1)

loadNodeConnections(ed, conns, node) ==
    LoadOutputs(LoadInputs(ed, conns.inputs, node, 1), conns.outputs, node, 1)

(***************************************************************************)
(* The commands.  A constructor, execute and undo each return the editor   *)
(* value (with the traps they met) and the command as they leave it.       *)
(***************************************************************************)
Result(ed, c) == [ed |-> ed, c |-> c]

MoveNodeCommand(ed, node, new_pos) ==
    With(getNodeByID(ed, node), LAMBDA n :
        Result(Touch(ed, n),
               [cmd |-> "move_node", m_node |-> node, m_new_pos |-> new_pos,
                m_old_pos |-> IF n = NULL THEN GarbagePos ELSE ed.heap[n].m_pos]))

\* The pin of to_node whose occupant the constructor records as before_from:
\* the code indexes the inputs of to_node with m_from_pin.
BeforeFromPin(from_pin, to_pin) == from_pin

\* Reading through p if it is set.
TouchIf(ed, p) == IF p = NULL THEN ed ELSE Touch(ed, p)

\* The constructor's body once from_node and to_node are found.
ConnectionBefore(ed, c0, from_node, to_node) ==
    IF from_node = NULL \/ to_node = NULL THEN Result(Trap(ed, "hard"), c0)
    ELSE IF ~InRange(ed.heap[from_node].m_outputs, c0.m_from_pin)
            \/ ~InRange(ed.heap[to_node].m_inputs, BeforeFromPin(c0.m_from_pin, c0.m_to_pin))
    THEN Result(Trap(ed, "hard"), c0)
    ELSE LET before_to   == ed.heap[from_node].m_outputs[c0.m_from_pin + 1]
             before_from == ed.heap[to_node].m_inputs[BeforeFromPin(c0.m_from_pin, c0.m_to_pin) + 1]
         IN Result(TouchIf(TouchIf(Touch(Touch(ed, from_node), to_node), before_to), before_from),
                   [c0 EXCEPT
                      !.m_before_to_pin = IF before_to = NULL THEN -1
                                          ELSE IndexOf(ed.heap[before_to].m_inputs, from_node),
                      !.m_before_to = IF before_to = NULL THEN -1 ELSE ed.heap[before_to].m_id,
                      !.m_before_from_pin = IF before_from = NULL THEN -1
                                            ELSE IndexOf(ed.heap[before_from].m_outputs, to_node),
                      !.m_before_from = IF before_from = NULL THEN -1
                                        ELSE ed.heap[before_from].m_id])

CreateConnectionCommand(ed, from, from_pin, to, to_pin) ==
    ConnectionBefore(ed,
                     [cmd |-> "create_connection", m_from |-> from, m_to |-> to,
                      m_from_pin |-> from_pin, m_to_pin |-> to_pin,
                      m_before_to |-> -1, m_before_to_pin |-> -1,
                      m_before_from |-> -1, m_before_from_pin |-> -1],
                     getNodeByID(ed, from), getNodeByID(ed, to))

RemoveNodeCommand(node_id, shader_type) ==
    [cmd |-> "remove_node", m_node_id |-> node_id, m_shader_type |-> shader_type,
     m_blob |-> <<>>]

CreateNodeCommand(id, type, shader_type, pos) ==
    [cmd |-> "create_node", m_id |-> id, m_shader_type |-> shader_type,
     m_node |-> NULL, m_type |-> type, m_pos |-> pos]

\* node->m_pos = pos.
SetPos(ed, node, pos) ==
    IF node = NULL THEN Trap(ed, "hard")
    ELSE [Touch(ed, node) EXCEPT !.heap[node].m_pos = pos]

MoveExecute(ed, c) == Result(SetPos(ed, getNodeByID(ed, c.m_node), c.m_new_pos), c)

MoveUndo(ed, c) == Result(SetPos(ed, getNodeByID(ed, c.m_node), c.m_old_pos), c)

\* The new pair of pointers, after both pins were cleared.
Link(ed, from_node, from_pin, to_node, to_pin) ==
    SetInput(SetOutput(ed, from_node, from_pin, to_node), to_node, to_pin, from_node)

\* execute's body once from_node and to_node are found.
ConnectionLink(ed, c, from_node, to_node) ==
    Link(removeConnection(removeConnection(ed, from_node, c.m_from_pin, FALSE),
                          to_node, c.m_to_pin, TRUE),
         from_node, c.m_from_pin, to_node, c.m_to_pin)

ConnectionExecute(ed, c) ==
    Result(ConnectionLink(ed, c, getNodeByID(ed, c.m_from), getNodeByID(ed, c.m_to)), c)

\* undo's first if: the output pin goes back to before_to.
RestoreTo(ed, c, node) ==
    IF Halted(ed) \/ c.m_before_to < 0 THEN ed
    ELSE With(getNodeByID(ed, c.m_before_to), LAMBDA before_to :
            SetInput(SetOutput(ed, node, c.m_from_pin, before_to),
                     before_to, c.m_before_to_pin, node))

\* undo's second if: the input pin goes back to before_from.
RestoreFrom(ed, c) ==
    IF Halted(ed) \/ c.m_before_from < 0 THEN ed
    ELSE With(getNodeByID(ed, c.m_before_from), LAMBDA before_from :
         With(getNodeByID(ed, c.m_to), LAMBDA to_node :
            SetOutput(SetInput(ed, to_node, c.m_to_pin, before_from),
                      before_from, c.m_before_from_pin, to_node)))

ConnectionUndo(ed, c) ==
    With(getNodeByID(ed, c.m_from), LAMBDA node :
        Result(RestoreFrom(RestoreTo(removeConnection(ed, node, c.m_from_pin, FALSE), c, node), c), c))

\* The blob is appended to on every execute and read from its start on undo:
\* m_blob keeps the snapshot at its start, the only one undo reaches (what a
\* redo appends behind it is never read).
RemoveExecute(ed, c) ==
    With(getNodeByID(ed, c.m_node_id), LAMBDA node :
        IF node = NULL THEN Result(Trap(ed, "hard"), c)
        ELSE Result(destroyNode(IF SaveTouches(ed, node) THEN Trap(ed, "soft") ELSE ed, node),
                    [c EXCEPT !.m_blob =
                        IF @ = <<>>
                        THEN <<[node |-> saveNode(ed, node), conns |-> saveNodeConnections(ed, node)]>>
                        ELSE @]))

RemoveUndo(ed, c, a) ==
    Result(loadNodeConnections(loadNode(ed, Head(c.m_blob).node, c.m_shader_type, a),
                               Head(c.m_blob).conns, a), c)

CreateExecute(ed, c, a) ==
    Result([addNode(createNode(ed, c.m_type, a), a, c.m_pos, c.m_shader_type)
               EXCEPT !.heap[a].m_id = IF c.m_id >= 0 THEN c.m_id ELSE @],
           [c EXCEPT !.m_node = a])

CreateUndo(ed, c) ==
    IF c.m_node = NULL THEN Result(Trap(ed, "hard"), c)
    ELSE Result(destroyNode(ed, c.m_node), [c EXCEPT !.m_id = ed.heap[c.m_node].m_id])

\* ICommand::execute and ICommand::undo; a is the address the allocator hands
\* out if the command builds a node.
CmdExecute(ed, c, a) ==
    CASE c.cmd = "move_node"         -> MoveExecute(ed, c)
      [] c.cmd = "create_connection" -> ConnectionExecute(ed, c)
      [] c.cmd = "remove_node"       -> RemoveExecute(ed, c)
      [] c.cmd = "create_node"       -> CreateExecute(ed, c, a)

CmdUndo(ed, c, a) ==
    CASE c.cmd = "move_node"         -> MoveUndo(ed, c)
      [] c.cmd = "create_connection" -> ConnectionUndo(ed, c)
      [] c.cmd = "remove_node"       -> RemoveUndo(ed, c, a)
      [] c.cmd = "create_node"       -> CreateUndo(ed, c)

Allocates(c, undoing) ==
    IF undoing THEN c.cmd = "remove_node" ELSE c.cmd = "create_node"

(***************************************************************************)
(* The undo stack.  A session value is the editor value, the stack and the *)
(* index of the last applied command.                                      *)
(***************************************************************************)
ShaderOrd(shader_type) == IF shader_type = "VERTEX" THEN 0 ELSE 1

\* MoveNodeCommand::merge casts its argument to MoveNodeCommand& whatever its
\* class and reads m_node and m_new_pos.  With the members laid out in
\* declaration order after the ICommand base, m_node reads the first int of the
\* other class, and m_new_pos the bytes that follow it.
MergeNode(c) ==
    CASE c.cmd = "move_node"         -> c.m_node
      [] c.cmd = "create_connection" -> c.m_before_to
      [] c.cmd = "remove_node"       -> ShaderOrd(c.m_shader_type)
      [] c.cmd = "create_node"       -> c.m_id

MergePos(c) == IF c.cmd = "move_node" THEN c.m_new_pos ELSE GarbagePos

\* ICommand::merge returns false; only MoveNodeCommand overrides it.
merges(top, c) == top.cmd = "move_node" /\ MergeNode(c) = top.m_node

\* A merge that leaves the top command as it was.
MergedKeepsTarget(top, c) == top

merged(top, c) == [top EXCEPT !.m_new_pos = MergePos(c)]

\* An execute that deletes nothing.
NotTruncated(S) == S.stack

\* The commands execute keeps: those up to the current index.
Truncated(S) == SubSeq(S.stack, 1, S.idx + 1)

\* execute once the stack is truncated: merge says whether the top command
\* took the new one in.
Run(S, stack, command, merge, a) ==
    With(CmdExecute(S.ed, IF merge THEN merged(stack[S.idx + 1], command) ELSE command, a),
         LAMBDA r :
            [ed    |-> r.ed,
             stack |-> IF merge THEN [stack EXCEPT ![S.idx + 1] = r.c] ELSE Append(stack, r.c),
             idx   |-> IF merge THEN S.idx ELSE Len(stack)])

execute(S, command, a) ==
    Run(S, Truncated(S), command, S.idx >= 0 /\ merges(S.stack[S.idx + 1], command), a)

canUndo(S) == S.idx >= 0

canRedo(S) == S.idx < Len(S.stack) - 1

\* An undo that leaves the index where it was.
UndoneInPlace(S, a) ==
    IF S.idx < 0 THEN S
    ELSE [S EXCEPT !.stack[S.idx + 1] = CmdUndo(S.ed, S.stack[S.idx + 1], a).c,
                   !.ed = CmdUndo(S.ed, S.stack[S.idx + 1], a).ed]

undo(S, a) ==
    IF S.idx < 0 THEN S
    ELSE With(CmdUndo(S.ed, S.stack[S.idx + 1], a), LAMBDA r :
            [ed |-> r.ed, stack |-> [S.stack EXCEPT ![S.idx + 1] = r.c], idx |-> S.idx - 1])

\* A redo that leaves the index where it was.
RedoneInPlace(S, a) ==
    IF S.idx + 1 >= Len(S.stack) THEN S
    ELSE [S EXCEPT !.stack[S.idx + 2] = CmdExecute(S.ed, S.stack[S.idx + 2], a).c,
                   !.ed = CmdExecute(S.ed, S.stack[S.idx + 2], a).ed]

redo(S, a) ==
    IF S.idx + 1 >= Len(S.stack) THEN S
    ELSE With(CmdExecute(S.ed, S.stack[S.idx + 2], a), LAMBDA r :
            [ed |-> r.ed, stack |-> [S.stack EXCEPT ![S.idx + 2] = r.c], idx |-> S.idx + 1])

(***************************************************************************)
(* Shader generation.  Only how a run of generate ends is modelled, not    *)
(* the text it writes: soft says an ASSERT failed or freed memory was      *)
(* read on the way, end says whether the run returned ("none"), stopped    *)
(* on a wild pointer ("hard") or recurses without end ("diverge").         *)
(***************************************************************************)
Ok == [soft |-> FALSE, end |-> "none"]

Soft == [soft |-> TRUE, end |-> "none"]

Diverges == [soft |-> FALSE, end |-> "diverge"]

\* first, and second after it if first returns.
Then(first, second) ==
    IF first.end # "none" THEN first
    ELSE [soft |-> first.soft \/ second.soft, end |-> second.end]

\* A call chain longer than the number of node objects has come back to a
\* node it is still inside of, and goes round again for ever.
Fuel == MaxAddr + 1

ValueTypeNames == {"FLOAT", "VEC2", "VEC3", "VEC4", "MATRIX3", "MATRIX4"}

\* getValueTypeName: the default branch is ASSERT(false).
getValueTypeName(type) ==
    IF type = "DIVERGE" THEN Diverges
    ELSE IF type \in ValueTypeNames THEN Ok ELSE Soft

\* A type that is read but not named (is_matrix in MultiplyNode::generate).
ReadType(type) ==
    IF type = "DIVERGE" THEN Diverges
    ELSE IF type \in {"FREED", "WILD"} THEN Soft ELSE Ok

\* VERTEX_INPUTS: the type column.
VertexInputType(m_input) ==
    IF m_input \in {"NORMAL", "TANGENT"} THEN "VEC3" ELSE "VEC4"

RECURSIVE getOutputType(_, _, _)
RECURSIVE getInputType(_, _, _, _)
\* Node::getInputType: the type of the output feeding input pin index.
getInputType(ed, node, index, fuel) ==
    IF ~InRange(ed.heap[node].m_inputs, index) THEN "WILD"
    ELSE IF ed.heap[node].m_inputs[index + 1] = NULL THEN "NONE"
    ELSE getOutputType(ed, ed.heap[node].m_inputs[index + 1], fuel - 1)

\* getOutputType of each kind; "FREED" when the object is no node any more.
getOutputType(ed, node, fuel) ==
    LET n == ed.heap[node]
    IN IF fuel <= 0 THEN "DIVERGE"
       ELSE IF ~n.alloc THEN "FREED"
       ELSE CASE n.m_type = "MULTIPLY" ->
                    IF ~InRange(n.m_inputs, 1) THEN "WILD"
                    ELSE IF n.m_inputs[2] # NULL THEN getInputType(ed, node, 1, fuel) ELSE "NONE"
              [] n.m_type = "MIX"             -> getInputType(ed, node, 1, fuel)
              [] n.m_type = "VEC4_MERGE"      -> "VEC4"
              [] n.m_type = "COLOR_CONST"     -> "VEC4"
              [] n.m_type = "SAMPLE"          -> "VEC4"
              [] n.m_type = "FLOAT_CONST"     -> "FLOAT"
              [] n.m_type = "VERTEX_INPUT"    -> VertexInputType(n.m_payload.m_input)
              [] n.m_type = "BUILTIN_UNIFORM" -> "MATRIX4"
              [] n.m_type = "UNIFORM"         -> n.m_payload.m_value_type
              [] OTHER                        -> "FLOAT"

RECURSIVE NodeGenerate(_, _, _)
RECURSIVE GenerateInputs(_, _, _, _, _)
\* m_inputs[i]->generate(blob) for the pins i .. last that are connected.
GenerateInputs(ed, node, i, last, fuel) ==
    IF i > last THEN Ok
    ELSE IF ~InRange(ed.heap[node].m_inputs, i) THEN [soft |-> TRUE, end |-> "hard"]
    ELSE IF ed.heap[node].m_inputs[i + 1] = NULL THEN GenerateInputs(ed, node, i + 1, last, fuel)
    ELSE Then(NodeGenerate(ed, ed.heap[node].m_inputs[i + 1], fuel - 1),
              GenerateInputs(ed, node, i + 1, last, fuel))

\* Whether every input pin 0 .. last exists and is connected.
AllInputs(n, last) ==
    \A i \in 0..last : InRange(n.m_inputs, i) /\ n.m_inputs[i + 1] # NULL

\* Node::generate of each kind.
NodeGenerate(ed, node, fuel) ==
    LET n == ed.heap[node]
    IN IF fuel <= 0 THEN Diverges
       ELSE IF ~n.alloc THEN Soft
       ELSE CASE n.m_type = "MULTIPLY" ->
                    IF ~AllInputs(n, 1) THEN (IF Len(n.m_inputs) < 2 THEN Soft ELSE Ok)
                    ELSE Then(GenerateInputs(ed, node, 0, 1, fuel),
                              Then(ReadType(getInputType(ed, node, 0, fuel)),
                                   getValueTypeName(getInputType(ed, node, 1, fuel))))
              [] n.m_type = "MIX" ->
                    IF ~AllInputs(n, 2)
                    THEN (IF Len(n.m_inputs) < 3 THEN Soft
                          ELSE getValueTypeName(getOutputType(ed, node, fuel)))
                    ELSE Then(GenerateInputs(ed, node, 0, 2, fuel),
                              getValueTypeName(getOutputType(ed, node, fuel)))
              [] n.m_type = "VEC4_MERGE" -> GenerateInputs(ed, node, 0, 4, fuel)
              [] n.m_type \in {"SAMPLE", "VERTEX_OUTPUT", "POSITION_OUTPUT", "FRAGMENT_OUTPUT"} ->
                    GenerateInputs(ed, node, 0, 0, fuel)
              [] OTHER -> Ok

\* generateBeforeMain: only UniformNode writes something, its declaration.
generateBeforeMain(ed, node) ==
    IF ~ed.heap[node].alloc THEN Soft
    ELSE IF ed.heap[node].m_type = "UNIFORM"
    THEN getValueTypeName(ed.heap[node].m_payload.m_value_type) ELSE Ok

RECURSIVE GenerateBeforeMain(_, _, _)
GenerateBeforeMain(ed, nodes, i) ==
    IF i > Len(nodes) THEN Ok
    ELSE Then(generateBeforeMain(ed, nodes[i]), GenerateBeforeMain(ed, nodes, i + 1))

IsTerminal(type) == type \in {"FRAGMENT_OUTPUT", "VERTEX_OUTPUT", "POSITION_OUTPUT"}

RECURSIVE GenerateTerminals(_, _, _)
GenerateTerminals(ed, nodes, i) ==
    IF i > Len(nodes) THEN Ok
    ELSE IF ~ed.heap[nodes[i]].alloc THEN Then(Soft, GenerateTerminals(ed, nodes, i + 1))
    ELSE IF IsTerminal(ed.heap[nodes[i]].m_type)
    THEN Then(NodeGenerate(ed, nodes[i], Fuel), GenerateTerminals(ed, nodes, i + 1))
    ELSE GenerateTerminals(ed, nodes, i + 1)

\* ShaderEditor::generate for one stage.
generate(ed, shader_type) ==
    LET nodes == IF shader_type = "FRAGMENT" THEN ed.frag ELSE ed.vert
    IN Then(GenerateBeforeMain(ed, nodes, 1), GenerateTerminals(ed, nodes, 1))

(***************************************************************************)
(* The text generate writes, as the pieces handed to the blob one after     *)
(* another.  It is read only of a run that returned without a trap.  The    *)
(* lines before the uniforms ($input, #include, SAMPLER2D) depend on the   *)
(* texture and varying names alone and are left out.                       *)
(***************************************************************************)
\* The name getValueTypeName returns.
ValueTypeText(type) ==
    CASE type = "FLOAT"   -> "float"
      [] type = "VEC2"    -> "vec2"
      [] type = "VEC3"    -> "vec3"
      [] type = "VEC4"    -> "vec4"
      [] type = "MATRIX3" -> "mat3"
      [] type = "MATRIX4" -> "mat4"
      [] OTHER            -> "float"

\* m_vertex_outputs[idx] and m_textures[idx]: newGraph empties every name, and
\* the name fields of the left column are not used in the model.
getVertexOutputName(idx) == ""

getTextureName(idx) == ""

\* Every kind referred to by its temporary.
LocalReference(ed, node) == <<"v", ToString(ed.heap[node].m_id)>>

\* printReference of each kind (VERTEX_INPUTS and BUILTIN_UNIFORMS give the
\* system names); Node::printReference writes "v" and the id.
printReference(ed, node) ==
    LET n == ed.heap[node]
    IN CASE n.m_type = "FLOAT_CONST"     -> <<ToString(n.m_payload.m_value)>>
         [] n.m_type = "FRAGMENT_INPUT"  -> <<getVertexOutputName(n.m_payload.m_attribute)>>
         [] n.m_type = "UNIFORM"         -> <<n.m_payload.m_name>>
         [] n.m_type = "BUILTIN_UNIFORM" ->
               <<IF n.m_payload.m_uniform = "MODEL_MTX" THEN "u_model[0]" ELSE "u_viewProj">>
         [] n.m_type = "VERTEX_INPUT" ->
               <<CASE n.m_payload.m_input = "POSITION"  -> "a_position"
                   [] n.m_payload.m_input = "NORMAL"    -> "a_normal"
                   [] n.m_payload.m_input = "COLOR"     -> "a_color"
                   [] n.m_payload.m_input = "TANGENT"   -> "a_tangent"
                   [] n.m_payload.m_input = "TEXCOORD0" -> "a_texcoord0"
                   [] n.m_payload.m_input = "INSTANCE_DATA0" -> "i_data0"
                   [] n.m_payload.m_input = "INSTANCE_DATA1" -> "i_data1"
                   [] n.m_payload.m_input = "INSTANCE_DATA2" -> "i_data2"
                   [] n.m_payload.m_input = "INSTANCE_DATA3" -> "i_data3">>
         [] OTHER -> <<"v", ToString(n.m_id)>>

RECURSIVE Flatten(_)
\* The pieces of a sequence of texts, in order.
Flatten(texts) == IF texts = <<>> THEN <<>> ELSE Head(texts) \o Flatten(Tail(texts))

\* A node that writes nothing.
WritesNothing(ed, node) == <<>>

RECURSIVE NodeWrites(_, _)
\* Node::generate of each kind: what it appends to the blob.
NodeWrites(ed, node) ==
    LET n       == ed.heap[node]
        id      == ToString(n.m_id)
        In(i)   == n.m_inputs[i + 1]
        Gen(i)  == NodeWrites(ed, In(i))
        Ref(i)  == printReference(ed, In(i))
        Part(i, field) ==
            IF In(i) = NULL THEN <<>> ELSE Gen(i) \o <<"\tv", id, field>> \o Ref(i) \o <<";\n">>
        matrix  == getInputType(ed, node, 0, Fuel) \in {"MATRIX3", "MATRIX4"}
    IN CASE n.m_type = "MULTIPLY" ->
               IF In(0) = NULL \/ In(1) = NULL THEN <<>>
               ELSE Gen(0) \o Gen(1)
                    \o <<"\t", ValueTypeText(getInputType(ed, node, 1, Fuel)), " v", id, " = ">>
                    \o (IF matrix THEN <<"mul(">> ELSE <<>>)
                    \o Ref(0) \o <<IF matrix THEN ", " ELSE " * ">>
                    \o Ref(1) \o <<IF matrix THEN ");\n" ELSE ";\n">>
         [] n.m_type = "VEC4_MERGE" ->
               <<"\tvec4 v", id, ";\n">> \o Part(0, ".xyz = ") \o Part(1, ".x = ")
               \o Part(2, ".y = ") \o Part(3, ".z = ") \o Part(4, ".w = ")
         [] n.m_type = "COLOR_CONST" ->
               <<"\tconst vec4 v", id, " = vec4(", ToString(n.m_payload.m_color[1]), ", ",
                 ToString(n.m_payload.m_color[2]), ", ", ToString(n.m_payload.m_color[3]), ", ",
                 ToString(n.m_payload.m_color[4]), ");\n">>
         [] n.m_type = "SAMPLE" ->
               IF In(0) = NULL THEN <<"\tvec4 v", id, " = vec4(1, 0, 1, 0);\n">>
               ELSE Gen(0)
                    \o <<"\tvec4 v", id, " = texture2D(", getTextureName(n.m_payload.m_texture), ", ">>
                    \o Ref(0) \o <<");\n">>
         [] n.m_type = "VERTEX_OUTPUT" ->
               IF In(0) = NULL
               THEN <<"\t", getVertexOutputName(n.m_payload.m_output_idx), " = vec4(1.0, 0.0, 1.0, 0.0);">>
               ELSE Gen(0) \o <<"\t", getVertexOutputName(n.m_payload.m_output_idx), " = ">>
                    \o Ref(0) \o <<";\n">>
         [] n.m_type = "POSITION_OUTPUT" ->
               IF In(0) = NULL THEN <<"\tgl_Position = vec4(1, 0, 1, 1);\n">>
               ELSE Gen(0) \o <<"\tgl_Position = ">> \o Ref(0) \o <<";\n">>
         [] n.m_type = "FRAGMENT_OUTPUT" ->
               IF In(0) = NULL THEN <<"\tgl_FragColor = vec4(1, 0, 1, 1);\n">>
               ELSE Gen(0) \o <<"\tgl_FragColor = ">> \o Ref(0) \o <<";\n">>
         [] n.m_type = "MIX" ->
               IF In(0) = NULL \/ In(1) = NULL \/ In(2) = NULL
               THEN <<"\t", ValueTypeText(getOutputType(ed, node, Fuel)), " v", id, ";\n">>
               ELSE Gen(0) \o Gen(1) \o Gen(2)
                    \o <<"\t", ValueTypeText(getOutputType(ed, node, Fuel)), " v", id, " = mix(">>
                    \o Ref(0) \o <<", ">> \o Ref(1) \o <<", ">> \o Ref(2) \o <<");">>
         [] OTHER -> <<>>

\* A generate that asks every node of the collection for its statements.
ShaderOfAll(ed, shader_type) ==
    LET nodes == IF shader_type = "FRAGMENT" THEN ed.frag ELSE ed.vert
    IN [before |-> Flatten([i \in 1..Len(nodes) |->
                      IF ed.heap[nodes[i]].m_type = "UNIFORM"
                      THEN <<"uniform ", ValueTypeText(ed.heap[nodes[i]].m_payload.m_value_type),
                             " ", ed.heap[nodes[i]].m_payload.m_name, ";\n">>
                      ELSE <<>>]),
        main   |-> Flatten([i \in 1..Len(nodes) |-> NodeWrites(ed, nodes[i])])]

\* What generate writes of one stage: the uniform declarations before main,
\* and between "void main() {" and "}" what the terminal nodes generate.
Shader(ed, shader_type) ==
    LET nodes == IF shader_type = "FRAGMENT" THEN ed.frag ELSE ed.vert
    IN [before |-> Flatten([i \in 1..Len(nodes) |->
                      IF ed.heap[nodes[i]].m_type = "UNIFORM"
                      THEN <<"uniform ", ValueTypeText(ed.heap[nodes[i]].m_payload.m_value_type),
                             " ", ed.heap[nodes[i]].m_payload.m_name, ";\n">>
                      ELSE <<>>]),
        main   |-> Flatten([i \in 1..Len(nodes) |->
                      IF IsTerminal(ed.heap[nodes[i]].m_type) THEN NodeWrites(ed, nodes[i])
                      ELSE <<>>])]

(***************************************************************************)
(* clear, newGraph, save and load.                                         *)
(***************************************************************************)
RECURSIVE DeleteAll(_, _, _)
DeleteAll(ed, nodes, i) ==
    IF Halted(ed) \/ i > Len(nodes) THEN ed
    ELSE DeleteAll(DeleteNode(ed, nodes[i]), nodes, i + 1)

\* A clear that keeps the id counter.
ClearKeepsCounter(S) ==
    [ed    |-> [DeleteAll(DeleteAll(S.ed, S.ed.frag, 1), S.ed.vert, 1)
                   EXCEPT !.frag = <<>>, !.vert = <<>>],
     stack |-> <<>>,
     idx   |-> -1]

clear(S) ==
    [ed    |-> [DeleteAll(DeleteAll(S.ed, S.ed.frag, 1), S.ed.vert, 1)
                   EXCEPT !.frag = <<>>, !.vert = <<>>, !.last = 0],
     stack |-> <<>>,
     idx   |-> -1]

\* A new graph without its terminals.
JustClear(S) == clear(S)

\* The address a node built after clear() gets: no pointer to freed memory is
\* left by then, so the free addresses are interchangeable.
NextFree(ed) == CHOOSE a \in Addr : ~ed.heap[a].alloc /\ \A b \in 1..(a - 1) : ed.heap[b].alloc

\* The node newGraph builds at address a: pushed, placed, numbered.
TerminalAt(ed, type, shader_type, a) ==
    [createNode(ed, type, a)
        EXCEPT !.frag = IF shader_type = "FRAGMENT" THEN Append(@, a) ELSE @,
               !.vert = IF shader_type = "FRAGMENT" THEN @ ELSE Append(@, a),
               !.heap[a].m_pos = StartPos,
               !.heap[a].m_id = ed.last + 1,
               !.last = ed.last + 1]

Terminal(ed, type, shader_type) ==
    IF Halted(ed) THEN ed ELSE TerminalAt(ed, type, shader_type, NextFree(ed))

newGraph(S) ==
    [clear(S) EXCEPT !.ed = Terminal(Terminal(@, "FRAGMENT_OUTPUT", "FRAGMENT"),
                                     "POSITION_OUTPUT", "VERTEX")]

\* What save writes for one collection: the node records, then the connections.
SavedNodes(ed, nodes) ==
    [nodes |-> [i \in 1..Len(nodes) |-> saveNode(ed, nodes[i])],
     conns |-> [i \in 1..Len(nodes) |-> saveNodeConnections(ed, nodes[i])]]

\* The file save writes (the vertex collection first).  The texture names, the
\* vertex output names and the vertex input flags are not modelled.
save(ed) == [exists |-> TRUE, vertex |-> SavedNodes(ed, ed.vert), fragment |-> SavedNodes(ed, ed.frag)]

SaveTrap(ed) ==
    IF \E i \in 1..Len(Nodes(ed)) : SaveTouches(ed, Nodes(ed)[i]) THEN Trap(ed, "soft") ELSE ed

RECURSIVE LoadNodes(_, _, _, _)
LoadNodes(ed, snaps, shader_type, i) ==
    IF Halted(ed) \/ i > Len(snaps) THEN ed
    ELSE LoadNodes(loadNode(ed, snaps[i], shader_type, NextFree(ed)), snaps, shader_type, i + 1)

\* A load that leaves the id counter where clear put it.
KeepLast(ed, node) == ed

\* m_last_node_id = maxValue(node->m_id + 1, m_last_node_id).
RaiseLast(ed, node) ==
    IF Halted(ed) THEN ed
    ELSE [ed EXCEPT !.last = IF ed.heap[node].m_id + 1 > @ THEN ed.heap[node].m_id + 1 ELSE @]

\* load's loop over a collection: the connections of each node in turn.
RECURSIVE LoadConnections(_, _, _, _)
LoadConnections(ed, conns, shader_type, i) ==
    IF Halted(ed) \/ i > Len(IF shader_type = "FRAGMENT" THEN ed.frag ELSE ed.vert) THEN ed
    ELSE With((IF shader_type = "FRAGMENT" THEN ed.frag ELSE ed.vert)[i], LAMBDA node :
            LoadConnections(RaiseLast(loadNodeConnections(ed, conns[i], node), node),
                            conns, shader_type, i + 1))

\* load once the file is chosen and opened.
load(S, file) ==
    [clear(S) EXCEPT !.ed =
        LoadConnections(
            LoadNodes(LoadConnections(LoadNodes(@, file.vertex.nodes, "VERTEX", 1),
                                      file.vertex.conns, "VERTEX", 1),
                      file.fragment.nodes, "FRAGMENT", 1),
            file.fragment.conns, "FRAGMENT", 1)]

(***************************************************************************)
(* The state of the program as a session value, and back.                  *)
(***************************************************************************)
Ed == [heap |-> heap, frag |-> m_fragment_nodes, vert |-> m_vertex_nodes,
       last |-> m_last_node_id, trap |-> "none"]

Session == [ed |-> Ed, stack |-> m_undo_stack, idx |-> m_undo_stack_idx]

\* Addresses some pointer of the session still holds: a pin of a live node, or
\* m_node of an applied CreateNodeCommand.
Referenced(S, a) ==
    \/ \E p \in Addr : /\ S.ed.heap[p].alloc
                       /\ \/ \E i \in 1..Len(S.ed.heap[p].m_inputs) : S.ed.heap[p].m_inputs[i] = a
                          \/ \E i \in 1..Len(S.ed.heap[p].m_outputs) : S.ed.heap[p].m_outputs[i] = a
    \/ \E i \in 1..(S.idx + 1) : S.stack[i].cmd = "create_node" /\ S.stack[i].m_node = a

FreeAddrs(S) == {a \in Addr : ~S.ed.heap[a].alloc}

Lowest(A) == CHOOSE a \in A : \A b \in A : a <= b

\* The free addresses nothing refers to are interchangeable: the lowest stands
\* for all of them.
Fresh(clean) == IF clean = {} THEN {} ELSE {Lowest(clean)}

\* What the allocator may return for a new node: any free address a stale
\* pointer still holds, or a free address nothing refers to.
AllocChoices(S) ==
    {a \in FreeAddrs(S) : Referenced(S, a)}
        \cup Fresh({a \in FreeAddrs(S) : ~Referenced(S, a)})

\* Free memory nothing refers to is unobservable: its stale id is dropped.
Scrub(S) ==
    [a \in Addr |-> IF ~S.ed.heap[a].alloc /\ ~Referenced(S, a) THEN FreeCell(0)
                    ELSE S.ed.heap[a]]

Install(S) ==
    /\ heap' = Scrub(S)
    /\ m_fragment_nodes' = S.ed.frag
    /\ m_vertex_nodes' = S.ed.vert
    /\ m_last_node_id' = S.ed.last
    /\ m_undo_stack' = S.stack
    /\ m_undo_stack_idx' = S.idx

\* How an operation that produced S ends: it completes (always without a trap,
\* possibly after a soft one), or the process stops at the trap.
Outcome(op, S) ==
    \/ /\ S.ed.trap # "hard"
       /\ Install(S)
       /\ fault' = fault
    \/ /\ S.ed.trap # "none"
       /\ fault' = [op |-> op, trap |-> S.ed.trap]
       /\ UNCHANGED <<heap, m_fragment_nodes, m_vertex_nodes, m_last_node_id,
                      m_undo_stack, m_undo_stack_idx>>

NoFault == [op |-> "", trap |-> "none"]

Running == fault = NoFault

\* One more user operation of the session.
Operation == Running /\ ops' = ops + 1 /\ UNCHANGED <<m_resources, resources>>

\* Sessions of at most MaxOps operations.
Budget == ops < MaxOps

CurrentNodes == IF m_current_shader_type = "FRAGMENT" THEN m_fragment_nodes ELSE m_vertex_nodes

CurrentSet == {CurrentNodes[i] : i \in 1..Len(CurrentNodes)}

LiveCount == Len(m_fragment_nodes) + Len(m_vertex_nodes)

\* Sessions whose stack stays short: room for one more command after the
\* truncation execute does.
StackRoom == m_undo_stack_idx + 2 <= MaxStack

\* execute(new command) with the constructor's traps carried over.
Exec(r, a) == execute([Session EXCEPT !.ed = r.ed], r.c, a)

(***************************************************************************)
(* User intents (onGUIRightColumn, onGUIMenu).                             *)
(***************************************************************************)
\* Context menu, Add: a kind legal for the selected stage, at the mouse position.
AddNodeAt(type, pos, a) ==
    /\ Operation /\ LiveCount < MaxNodes /\ m_last_node_id < MaxId
    /\ LegalIn(type, m_current_shader_type)
    /\ Outcome("create_node", Exec(Result(Ed, CreateNodeCommand(-1, type, m_current_shader_type, pos)), a))
    /\ UNCHANGED <<m_current_node_id, m_current_shader_type, m_path, m_file>>

AddNode(types, positions) ==
    \E type \in types, pos \in positions, a \in AllocChoices(Session) : AddNodeAt(type, pos, a)

\* A link dragged between an output pin and an input pin of displayed nodes.
ConnectPins(n1, p1, n2, p2) ==
    /\ Operation
    /\ Outcome("create_connection", Exec(CreateConnectionCommand(Ed, heap[n1].m_id, p1, heap[n2].m_id, p2), NULL))
    /\ UNCHANGED <<m_current_node_id, m_current_shader_type, m_path, m_file>>

OutputPins(n) == 0..(Len(heap[n].m_outputs) - 1)

InputPins(n) == 0..(Len(heap[n].m_inputs) - 1)

Connect ==
    \E n1 \in CurrentSet, n2 \in CurrentSet :
       \E p1 \in OutputPins(n1), p2 \in InputPins(n2) : ConnectPins(n1, p1, n2, p2)

\* A displayed node dragged to another position.
MoveNodeTo(n, pos) ==
    /\ Operation
    /\ pos # heap[n].m_pos
    /\ Outcome("move_node", Exec(MoveNodeCommand(Ed, heap[n].m_id, pos), NULL))
    /\ UNCHANGED <<m_current_node_id, m_current_shader_type, m_path, m_file>>

MoveNode(positions) == \E n \in CurrentSet, pos \in positions : MoveNodeTo(n, pos)

\* Right click on a displayed node of one of the given kinds, then Remove in
\* the context menu.
RemoveNodeAt(n) ==
    /\ Operation
    /\ m_current_node_id' = heap[n].m_id
    /\ Outcome("remove_node", Exec(Result(Ed, RemoveNodeCommand(heap[n].m_id, m_current_shader_type)), NULL))
    /\ UNCHANGED <<m_current_shader_type, m_path, m_file>>

RemoveNode(types) == \E n \in CurrentSet : heap[n].m_type \in types /\ RemoveNodeAt(n)

\* Right click on the empty canvas, then Remove in the context menu: the menu
\* has the item once a node has been right-clicked, and the command gets the id
\* of that node and the stage selected now.
RemoveLast ==
    /\ Operation
    /\ m_current_node_id >= 0
    /\ Outcome("remove_node", Exec(Result(Ed, RemoveNodeCommand(m_current_node_id, m_current_shader_type)), NULL))
    /\ UNCHANGED <<m_current_node_id, m_current_shader_type, m_path, m_file>>

\* Where undo (or redo) of the session puts a node it allocates: NULL when it
\* allocates none.
UndoAllocs(S) ==
    IF canUndo(S) /\ Allocates(S.stack[S.idx + 1], TRUE) THEN AllocChoices(S) ELSE {NULL}

RedoAllocs(S) ==
    IF canRedo(S) /\ Allocates(S.stack[S.idx + 2], FALSE) THEN AllocChoices(S) ELSE {NULL}

\* Edit, Undo: enabled while canUndo().
Undo ==
    /\ Operation /\ canUndo(Session)
    /\ \E a \in UndoAllocs(Session) : Outcome("undo", undo(Session, a))
    /\ UNCHANGED <<m_current_node_id, m_current_shader_type, m_path, m_file>>

\* Edit, Redo: enabled while canRedo().
Redo ==
    /\ Operation /\ canRedo(Session)
    /\ (RedoAllocs(Session) # {NULL}) => m_last_node_id < MaxId
    /\ \E a \in RedoAllocs(Session) : Outcome("redo", redo(Session, a))
    /\ UNCHANGED <<m_current_node_id, m_current_shader_type, m_path, m_file>>

\* The Shader combo.
SelectShader ==
    /\ Operation
    /\ m_current_shader_type' = IF m_current_shader_type = "VERTEX" THEN "FRAGMENT" ELSE "VERTEX"
    /\ UNCHANGED <<heap, m_fragment_nodes, m_vertex_nodes, m_last_node_id, m_undo_stack,
                   m_undo_stack_idx, m_current_node_id, m_path, m_file, fault>>

\* The type combo and the name field of a displayed uniform node.
EditUniform(names, value_types) ==
    /\ Operation
    /\ \E n \in CurrentSet, name \in names, value_type \in value_types :
          /\ heap[n].m_type = "UNIFORM"
          /\ heap[n].m_payload # [m_name |-> name, m_value_type |-> value_type]
          /\ heap' = [heap EXCEPT ![n].m_payload = [m_name |-> name, m_value_type |-> value_type]]
    /\ UNCHANGED <<m_fragment_nodes, m_vertex_nodes, m_last_node_id, m_undo_stack,
                   m_undo_stack_idx, m_current_node_id, m_current_shader_type, m_path,
                   m_file, fault>>

\* The value field of a displayed float constant.
EditFloat(n, value) ==
    /\ Operation
    /\ n \in CurrentSet
    /\ heap[n].m_type = "FLOAT_CONST"
    /\ heap[n].m_payload.m_value # value
    /\ heap' = [heap EXCEPT ![n].m_payload.m_value = value]
    /\ UNCHANGED <<m_fragment_nodes, m_vertex_nodes, m_last_node_id, m_undo_stack,
                   m_undo_stack_idx, m_current_node_id, m_current_shader_type, m_path,
                   m_file, fault>>

SessionPath == "shader.sed"

\* File, New.
NewGraph ==
    /\ Operation
    /\ Outcome("newGraph", newGraph(Session))
    /\ UNCHANGED <<m_current_node_id, m_current_shader_type, m_path, m_file>>

\* A save that clears the session.
SaveOrClear(opens) ==
    /\ Operation
    /\ m_path' = SessionPath
    /\ Outcome("save", clear(Session))
    /\ UNCHANGED <<m_current_node_id, m_current_shader_type, m_file>>

\* File, Save as (or Save, once there is a path): opened says whether fopen
\* succeeds.
Save(opens) ==
    /\ Operation
    /\ m_path' = SessionPath
    /\ \E opened \in opens :
          IF opened
          THEN /\ Outcome("save", [Session EXCEPT !.ed = SaveTrap(Ed)])
               /\ m_file' = IF fault' = fault THEN save(Ed) ELSE m_file
          ELSE UNCHANGED <<heap, m_fragment_nodes, m_vertex_nodes, m_last_node_id,
                           m_undo_stack, m_undo_stack_idx, m_file, fault>>
    /\ UNCHANGED <<m_current_node_id, m_current_shader_type>>

\* File, Open, with the session file chosen in the dialog.
Load(opens) ==
    /\ Operation
    /\ m_file.exists
    /\ m_path' = SessionPath
    /\ \E opened \in opens :
          Outcome("load", IF opened THEN load(Session, m_file) ELSE clear(Session))
    /\ UNCHANGED <<m_current_node_id, m_current_shader_type, m_file>>

\* The Generate menu item: both stages, the vertex one first, then
\* generateMain; vs, fs and shd say whether the fopen of each file succeeds.
\* A stage whose file does not open is not generated.
GenerateFiles(vs, fs, shd) ==
    /\ Operation
    /\ m_path # ""
    /\ LET o == Then(IF vs THEN generate(Ed, "VERTEX") ELSE Ok,
                     IF fs THEN generate(Ed, "FRAGMENT") ELSE Ok)
       IN \/ o.end = "none" /\ fault' = fault
          \/ o.soft /\ fault' = [op |-> "generate", trap |-> "soft"]
          \/ o.end # "none" /\ fault' = [op |-> "generate", trap |-> o.end]
    /\ UNCHANGED <<heap, m_fragment_nodes, m_vertex_nodes, m_last_node_id, m_undo_stack,
                   m_undo_stack_idx, m_current_node_id, m_current_shader_type, m_path, m_file>>

Generate(opens) == \E vs, fs, shd \in opens : GenerateFiles(vs, fs, shd)

\* What generateMain writes (no texture has a name).
generateMain ==
    <<"passes = {\"MAIN\"}\nvs_combinations = {\"\"}\nfs_combinations = {\"\"}\ntexture_slots = {\n",
      "}\n">>

\* A file as fopen and the writer leave it: whether it opened, and its text if
\* the writer met no trap (wrote says so).
Written(opened, clean, text) ==
    [opened |-> opened, wrote |-> opened /\ clean, text |-> IF opened /\ clean THEN text ELSE <<>>]

\* The three files of one use of Generate.
Output(vs, fs, shd) ==
    [vs  |-> Written(vs, generate(Ed, "VERTEX") = Ok, Shader(Ed, "VERTEX")),
     fs  |-> Written(fs, generate(Ed, "FRAGMENT") = Ok, Shader(Ed, "FRAGMENT")),
     shd |-> Written(shd, TRUE, generateMain)]

\* What save and generate do with their file, in the order of the code: fopen
\* with "wb" first, and return if it fails; then the blob is filled; then
\* fwrite and fclose.  A trap while the blob is filled ends the run there.
FileEvents(opened, clean) ==
    IF ~opened THEN <<"fopen fails">>
    ELSE IF ~clean THEN <<"fopen">>
    ELSE <<"fopen", "buffered", "fwrite", "fclose">>

NoFile == [exists |-> FALSE]

\* What the last operation was (for the properties; the program keeps no such
\* record): its kind and arguments, the session it started from, whether it
\* completed, and the run of consecutive moves of one node it belongs to.
NoRun == [id |-> -1, count |-> 0, len |-> 0, pos |-> <<0, 0>>, merged |-> FALSE,
          old |-> <<0, 0>>]

NoHist ==
    [op |-> "init", done |-> TRUE, pre |-> <<>>, node |-> -1, pin |-> -1, to |-> -1,
     to_pin |-> -1, pos |-> <<0, 0>>, merge |-> FALSE, run |-> NoRun, applied |-> <<>>,
     out |-> <<>>]

\* newGraph as the constructor runs it on an empty editor.
Init ==
    /\ heap = [a \in Addr |-> IF a = 1 THEN [NewNode("FRAGMENT_OUTPUT", 1) EXCEPT !.m_pos = StartPos]
                              ELSE IF a = 2 THEN [NewNode("POSITION_OUTPUT", 2) EXCEPT !.m_pos = StartPos]
                              ELSE FreeCell(0)]
    /\ m_fragment_nodes = <<1>>
    /\ m_vertex_nodes = <<2>>
    /\ m_last_node_id = 2
    /\ m_undo_stack = <<>>
    /\ m_undo_stack_idx = -1
    /\ m_current_node_id = -1
    /\ m_current_shader_type = "VERTEX"
    /\ m_path = ""
    /\ m_file = NoFile
    /\ fault = NoFault
    /\ ops = 0
    /\ hist = NoHist
    /\ m_resources = [path \in Paths |-> NoResource]
    /\ resources = [r \in Res |-> NoObject]

\* The kinds the Add menu is used for, and where the mouse is then.
EditTypes == {"MIX", "UNIFORM"}

AddPos == {<<0, 0>>}

Next ==
    \/ Budget /\ StackRoom /\ AddNode(EditTypes, AddPos) /\ UNCHANGED hist
    \/ Budget /\ StackRoom /\ Connect /\ UNCHANGED hist
    \/ Budget /\ StackRoom /\ MoveNode(Pos) /\ UNCHANGED hist
    \/ Budget /\ StackRoom /\ RemoveNode(NodeTypes) /\ UNCHANGED hist
    \/ Budget /\ Undo /\ UNCHANGED hist
    \/ Budget /\ Redo /\ UNCHANGED hist
    \/ Budget /\ SelectShader /\ UNCHANGED hist
    \/ Budget /\ EditUniform({"u"}, {"VEC4", "FLOAT"}) /\ UNCHANGED hist
    \/ Budget /\ NewGraph /\ UNCHANGED hist
    \/ Budget /\ Save({TRUE}) /\ UNCHANGED hist
    \/ Budget /\ Load({TRUE}) /\ UNCHANGED hist
    \/ Budget /\ Generate({TRUE}) /\ UNCHANGED hist

Spec == Init /\ [][Next]_vars

(***************************************************************************)
(* The editing commands alone, with the record of the last operation kept. *)
(***************************************************************************)
\* Whether execute would hand the new command to the top one and drop it.
Merges(c) == m_undo_stack_idx >= 0 /\ merges(m_undo_stack[m_undo_stack_idx + 1], c)

\* The run of consecutive moves of node id the next move belongs to: how many
\* moves, the commands kept and the node's position when it began, whether its
\* first move merged, and the position the entry it is in restores.
MoveRun(id, c) ==
    IF hist.op = "move_node" /\ hist.run.id = id
    THEN [hist.run EXCEPT !.count = @ + 1]
    ELSE [id |-> id, count |-> 1, len |-> m_undo_stack_idx + 1,
          pos |-> heap[getNodeByID(Ed, id)].m_pos, merged |-> Merges(c),
          old |-> IF Merges(c) THEN m_undo_stack[m_undo_stack_idx + 1].m_old_pos
                  ELSE heap[getNodeByID(Ed, id)].m_pos]

\* For each stack entry, whether the last call it got was execute (TRUE) or
\* undo (FALSE): execute deletes the entries above the index, then calls execute
\* of the top entry (merge) or of the pushed one; undo calls undo of the entry
\* at the index, redo calls execute of the entry above it.
Applied(op, merge) ==
    IF fault' # fault THEN hist.applied
    ELSE IF op \in {"create_node", "create_connection", "move_node", "remove_node"}
    THEN IF merge
         THEN [SubSeq(hist.applied, 1, m_undo_stack_idx + 1) EXCEPT ![m_undo_stack_idx + 1] = TRUE]
         ELSE Append(SubSeq(hist.applied, 1, m_undo_stack_idx + 1), TRUE)
    ELSE IF op = "undo" THEN [hist.applied EXCEPT ![m_undo_stack_idx + 1] = FALSE]
    ELSE IF op = "redo" THEN [hist.applied EXCEPT ![m_undo_stack_idx + 2] = TRUE]
    ELSE hist.applied

Record(op, node, pin, to, to_pin, pos, merge, run) ==
    hist' = [op |-> op, done |-> fault' = fault, pre |-> Session, node |-> node,
             pin |-> pin, to |-> to, to_pin |-> to_pin, pos |-> pos, merge |-> merge,
             run |-> run, applied |-> Applied(op, merge), out |-> <<>>]

HistAdd(types) ==
    \E type \in types, pos \in AddPos, a \in AllocChoices(Session) :
       /\ AddNodeAt(type, pos, a)
       /\ Record("create_node", m_last_node_id + 1, -1, -1, -1, pos,
                 Merges(CreateNodeCommand(-1, type, m_current_shader_type, pos)), NoRun)

HistConnect ==
    \E n1 \in CurrentSet, n2 \in CurrentSet :
       \E p1 \in OutputPins(n1), p2 \in InputPins(n2) :
          /\ ConnectPins(n1, p1, n2, p2)
          /\ Record("create_connection", heap[n1].m_id, p1, heap[n2].m_id, p2, <<0, 0>>,
                    Merges(CreateConnectionCommand(Ed, heap[n1].m_id, p1, heap[n2].m_id, p2).c),
                    NoRun)

HistMove ==
    \E n \in CurrentSet, pos \in Pos :
       /\ MoveNodeTo(n, pos)
       /\ Record("move_node", heap[n].m_id, -1, -1, -1, pos,
                 Merges(MoveNodeCommand(Ed, heap[n].m_id, pos).c),
                 MoveRun(heap[n].m_id, MoveNodeCommand(Ed, heap[n].m_id, pos).c))

HistRemove ==
    \E n \in CurrentSet :
       /\ RemoveNodeAt(n)
       /\ Record("remove_node", heap[n].m_id, -1, -1, -1, <<0, 0>>,
                 Merges(RemoveNodeCommand(heap[n].m_id, m_current_shader_type)), NoRun)

HistUndo == Undo /\ Record("undo", -1, -1, -1, -1, <<0, 0>>, FALSE, NoRun)

HistRedo == Redo /\ Record("redo", -1, -1, -1, -1, <<0, 0>>, FALSE, NoRun)

HistSelect == SelectShader /\ Record("select", -1, -1, -1, -1, <<0, 0>>, FALSE, NoRun)

WireTypes == {"MULTIPLY"}

\* Short sessions of every editing command.
HistNext ==
    \/ Budget /\ StackRoom /\ HistAdd(WireTypes)
    \/ Budget /\ StackRoom /\ HistConnect
    \/ Budget /\ StackRoom /\ HistMove
    \/ Budget /\ StackRoom /\ HistRemove
    \/ Budget /\ HistUndo
    \/ Budget /\ HistRedo
    \/ Budget /\ HistSelect

HistSpec == Init /\ [][HistNext]_vars

\* Sessions of the commands that change nodes and connections, in one stage.
WireNext ==
    \/ Budget /\ HistAdd(WireTypes)
    \/ Budget /\ HistConnect
    \/ Budget /\ HistRemove
    \/ Budget /\ HistUndo
    \/ Budget /\ HistRedo

WireSpec == Init /\ [][WireNext]_vars

(***************************************************************************)
(* Sessions that also use Remove of the context menu without a new right   *)
(* click on a node.                                                        *)
(***************************************************************************)
HistRemoveLast ==
    /\ RemoveLast
    /\ Record("remove_node", m_current_node_id, -1, -1, -1, <<0, 0>>,
              Merges(RemoveNodeCommand(m_current_node_id, m_current_shader_type)), NoRun)

MenuNext ==
    \/ Budget /\ StackRoom /\ HistAdd(WireTypes)
    \/ Budget /\ StackRoom /\ HistConnect
    \/ Budget /\ StackRoom /\ HistMove
    \/ Budget /\ StackRoom /\ HistRemove
    \/ Budget /\ StackRoom /\ HistRemoveLast
    \/ Budget /\ HistUndo
    \/ Budget /\ HistRedo
    \/ Budget /\ HistSelect

MenuSpec == Init /\ [][MenuNext]_vars

(***************************************************************************)
(* The file operations, with the record of the last one kept: New, Open,   *)
(* Save as and Generate, each fopen succeeding or not, on graphs built     *)
(* with the editing commands.                                              *)
(***************************************************************************)
Filed(op, out) ==
    hist' = [NoHist EXCEPT !.op = op, !.done = (fault' = fault), !.pre = Session, !.out = out]

Unrecorded == hist' = NoHist

FileNew == NewGraph /\ Filed("newGraph", <<>>)

FileSave ==
    \E opened \in BOOLEAN :
       Save({opened}) /\ Filed(IF opened THEN "save" ELSE "save_failed", <<>>)

FileLoad ==
    \E opened \in BOOLEAN :
       Load({opened}) /\ Filed(IF opened THEN "load" ELSE "load_failed", <<>>)

FileGenerate ==
    \E vs, fs, shd \in BOOLEAN :
       GenerateFiles(vs, fs, shd) /\ Filed("generate", Output(vs, fs, shd))

FileTypes == {"VERTEX_OUTPUT", "FLOAT_CONST", "MULTIPLY"}

FileNext ==
    \/ Budget /\ StackRoom /\ AddNode(FileTypes, AddPos) /\ Unrecorded
    \/ Budget /\ StackRoom /\ Connect /\ Unrecorded
    \/ Budget /\ StackRoom /\ RemoveNode(NodeTypes) /\ Unrecorded
    \/ Budget /\ Undo /\ Unrecorded
    \/ Budget /\ Redo /\ Unrecorded
    \/ Budget /\ SelectShader /\ Unrecorded
    \/ Budget /\ FileNew
    \/ Budget /\ FileSave
    \/ Budget /\ FileLoad
    \/ Budget /\ FileGenerate

FileSpec == Init /\ [][FileNext]_vars

(***************************************************************************)
(* Sessions that build a fragment graph of constants and products and      *)
(* generate it: the position output is removed to make room, the nodes are *)
(* added, then their values are set, then the pins are connected.          *)
(***************************************************************************)
MaxGenOps   == 12    \* user operations in a building session
MaxGenStack == 7     \* commands a building session executes

GenBudget == ops < MaxGenOps

GenRoom == Len(m_undo_stack) < MaxGenStack

GenTypes == {"FLOAT_CONST", "MULTIPLY"}

GenValues == {1, 2}

Fragment == m_current_shader_type = "FRAGMENT"

\* No displayed node has a connected input pin yet.
NoLinks ==
    \A n \in CurrentSet : \A i \in 1..Len(heap[n].m_inputs) : heap[n].m_inputs[i] = NULL

\* The displayed float constants whose value has not been set yet.
Unset == {n \in CurrentSet : heap[n].m_type = "FLOAT_CONST" /\ heap[n].m_payload.m_value = 0}

\* The displayed terminal has its input connected.
TerminalFed ==
    \E n \in CurrentSet : heap[n].m_type = "FRAGMENT_OUTPUT" /\ heap[n].m_inputs[1] # NULL

SetFloat == \E n \in Unset, value \in GenValues : EditFloat(n, value)

GenGenerate == GenerateFiles(TRUE, TRUE, TRUE) /\ Filed("generate", Output(TRUE, TRUE, TRUE))

GenNext ==
    \/ GenBudget /\ m_path = "" /\ m_undo_stack = <<>> /\ Save({TRUE}) /\ Unrecorded
    \/ GenBudget /\ GenRoom /\ RemoveNode({"POSITION_OUTPUT"}) /\ Unrecorded
    \/ GenBudget /\ ~Fragment /\ SelectShader /\ Unrecorded
    \/ GenBudget /\ GenRoom /\ Fragment /\ NoLinks /\ AddNode(GenTypes, AddPos) /\ Unrecorded
    \/ GenBudget /\ NoLinks /\ SetFloat /\ Unrecorded
    \/ GenBudget /\ GenRoom /\ Fragment /\ Connect /\ Unrecorded
    \/ GenBudget /\ TerminalFed /\ GenGenerate

GenSpec == Init /\ [][GenNext]_vars

(***************************************************************************)
(* Sessions that add uniforms and texture samples to either stage, name    *)
(* the uniforms, connect and generate.                                     *)
(***************************************************************************)
BodyTypes == {"SAMPLE", "UNIFORM"}

BodyNext ==
    \/ Budget /\ StackRoom /\ AddNode(BodyTypes, AddPos) /\ Unrecorded
    \/ Budget /\ StackRoom /\ Connect /\ Unrecorded
    \/ Budget /\ Undo /\ Unrecorded
    \/ Budget /\ SelectShader /\ Unrecorded
    \/ Budget /\ EditUniform({"u"}, {"VEC4", "FLOAT"}) /\ Unrecorded
    \/ Budget /\ Save({TRUE}) /\ Unrecorded
    \/ Budget /\ FileGenerate

BodySpec == Init /\ [][BodyNext]_vars

(***************************************************************************)
(* Sessions that add texture samples, mixes and vector merges to the       *)
(* vertex stage, then connect pins, and generate.                          *)
(***************************************************************************)
MaxFanStack == 5     \* commands such a session executes

FanRoom == Len(m_undo_stack) < MaxFanStack

FanTypes == {"MIX", "VEC4_MERGE", "SAMPLE"}

FanNext ==
    \/ Budget /\ m_path = "" /\ m_undo_stack = <<>> /\ Save({TRUE}) /\ Unrecorded
    \/ Budget /\ FanRoom /\ NoLinks /\ AddNode(FanTypes, AddPos) /\ Unrecorded
    \/ Budget /\ FanRoom /\ Connect /\ Unrecorded
    \/ Budget /\ GenGenerate

FanSpec == Init /\ [][FanNext]_vars

(***************************************************************************)
(* ResourceManagerBase (engine/core/resource_manager_base.cpp): the table  *)
(* m_resources of one manager and the Resource objects it made.  The class *)
(* Resource is declared in core/resource.h: a resource has a path, a       *)
(* reference count and a state, EMPTY after construction.                  *)
(***************************************************************************)
\* The manager with the record of one call: how often the call invoked doLoad
\* and doUnload, whether it made a resource, and what it returned.
Manager ==
    [table |-> m_resources, objs |-> resources, doLoad |-> 0, doUnload |-> 0,
     created |-> FALSE, ret |-> NoResource]

\* Resource::isEmpty, addRef (++m_ref_count) and remRef (--m_ref_count, which
\* returns the new count; below zero stands for the count wrapped around).
isEmpty(m, r) == m.objs[r].m_state = "EMPTY"

addRef(m, r) == [m EXCEPT !.objs[r].m_ref_count = @ + 1]

remRef(m, r) == [m EXCEPT !.objs[r].m_ref_count = @ - 1]

\* The states doLoad can leave a resource in: the load is asynchronous, so the
\* resource may still be empty, be loading, or be loaded or failed already.
LoadStates == {"EMPTY", "LOADING", "READY", "FAILURE"}

\* Resource::doLoad and doUnload, counted.
doLoad(m, r, state) == [m EXCEPT !.objs[r].m_state = state, !.doLoad = @ + 1]

doUnload(m, r) == [m EXCEPT !.objs[r].m_state = "EMPTY", !.doUnload = @ + 1]

\* Memory for one more Resource object.
FreeRes(m) == {r \in Res : m.objs[r] = NoObject}

\* createResource(path): a new, empty resource with no reference.
createResource(m, path) ==
    LET r == CHOOSE f \in FreeRes(m) : \A g \in FreeRes(m) : f <= g
    IN [m EXCEPT !.objs[r] = [m_path |-> path, m_ref_count |-> 0, m_state |-> "EMPTY"],
                 !.created = TRUE, !.ret = r]

\* ResourceManagerBase::get.
get(m, path) == m.table[path]

\* ResourceManagerBase::load(Resource&).
loadResource(m, r, state) ==
    addRef(IF isEmpty(m, r) THEN doLoad(m, r, state) ELSE m, r)

\* ResourceManagerBase::load(const Path&).
loadPath(m, path, state) ==
    LET made == createResource(m, path)
        m1   == IF get(m, path) = NoResource
                THEN [made EXCEPT !.table[path] = made.ret]
                ELSE [m EXCEPT !.ret = get(m, path)]
    IN loadResource(m1, m1.ret, state)

\* An unload that always unloads the resource.
UnloadAlways(m, r) == doUnload(remRef(m, r), r)

\* ResourceManagerBase::unload(Resource&).
unloadResource(m, r) ==
    IF remRef(m, r).objs[r].m_ref_count = 0 THEN doUnload(remRef(m, r), r) ELSE remRef(m, r)

\* ResourceManagerBase::unload(const Path&).
unloadPath(m, path) ==
    IF get(m, path) # NoResource THEN unloadResource(m, get(m, path)) ELSE m

\* ResourceManagerBase::forceUnload(Resource&).
forceUnloadResource(m, r) == [doUnload(m, r) EXCEPT !.objs[r].m_ref_count = 0]

\* ResourceManagerBase::forceUnload(const Path&).
forceUnloadPath(m, path) ==
    IF get(m, path) # NoResource THEN forceUnloadResource(m, get(m, path)) ELSE m

\* The shader editor's variables, which no call to the manager touches.
editor == <<heap, m_fragment_nodes, m_vertex_nodes, m_last_node_id, m_undo_stack,
            m_undo_stack_idx, m_current_node_id, m_current_shader_type, m_path, m_file, fault>>

\* One call to the manager: the state it leaves, and the record of the call.
Call(op, path, r, m) ==
    /\ ops < MaxCalls
    /\ ops' = ops + 1
    /\ m_resources' = m.table
    /\ resources' = m.objs
    /\ hist' = [op |-> op, path |-> path, res |-> r, pre |-> Manager, doLoad |-> m.doLoad,
                doUnload |-> m.doUnload, created |-> m.created, ret |-> m.ret]
    /\ UNCHANGED editor

\* The resources some load has returned to a caller.
Made == {r \in Res : resources[r] # NoObject}

LoadPath ==
    \E path \in Paths, state \in LoadStates :
       /\ get(Manager, path) = NoResource => FreeRes(Manager) # {}
       /\ Call("load_path", path, NoResource, loadPath(Manager, path, state))

LoadResource ==
    \E r \in Made, state \in LoadStates :
       Call("load", "", r, loadResource(Manager, r, state))

UnloadPath == \E path \in Paths : Call("unload_path", path, NoResource, unloadPath(Manager, path))

UnloadResource == \E r \in Made : Call("unload", "", r, unloadResource(Manager, r))

ForceUnloadPath ==
    \E path \in Paths : Call("force_unload_path", path, NoResource, forceUnloadPath(Manager, path))

ForceUnloadResource == \E r \in Made : Call("force_unload", "", r, forceUnloadResource(Manager, r))

ResNext ==
    \/ LoadPath
    \/ LoadResource
    \/ UnloadPath
    \/ UnloadResource
    \/ ForceUnloadPath
    \/ ForceUnloadResource

ResSpec == Init /\ [][ResNext]_vars

(***************************************************************************)
(* Properties.                                                             *)
(***************************************************************************)
\* The nodes of the two stage arrays.
Live(ed) == {Nodes(ed)[i] : i \in 1..Len(Nodes(ed))}

\* Every pin of every live node, by address.
PinsOf(ed) ==
    [a \in Addr |-> IF a \in Live(ed) THEN <<ed.heap[a].m_inputs, ed.heap[a].m_outputs>>
                    ELSE <<>>]

References(pins, b) == \E j \in 1..Len(pins) : pins[j] = b

Symmetric(ed) ==
    \A a \in Live(ed) :
       /\ \A i \in 1..Len(ed.heap[a].m_inputs) :
             ed.heap[a].m_inputs[i] # NULL =>
                /\ ed.heap[a].m_inputs[i] \in Live(ed)
                /\ References(ed.heap[ed.heap[a].m_inputs[i]].m_outputs, a)
       /\ \A j \in 1..Len(ed.heap[a].m_outputs) :
             ed.heap[a].m_outputs[j] # NULL =>
                /\ ed.heap[a].m_outputs[j] \in Live(ed)
                /\ References(ed.heap[ed.heap[a].m_outputs[j]].m_inputs, a)

\* C1: in every state reached by create-node, connect, move, remove-node, undo
\* and redo, every input reference of a live node is answered by an output
\* reference of a live peer, and every output reference by an input reference.
C1_ConnectionsSymmetric == Symmetric(Ed)

\* The last operation was a CreateConnection command that execute ran itself.
Connected == hist.op = "create_connection" /\ hist.done /\ ~hist.merge

\* C2: right after a CreateConnection command was executed, undoing it gives
\* every input and output pin of every node the value it had before.
C2_ConnectUndoRestoresPins ==
    Connected => PinsOf(undo(Session, NULL).ed) = PinsOf(hist.pre.ed)

\* The id a pin shows (0 for an empty pin).
PeerId(ed, p) == IF p = NULL THEN 0 ELSE ed.heap[p].m_id

\* Every pin of a node by id: node, direction, pin index, peer.
NodePins(ed, a) ==
    {<<ed.heap[a].m_id, "in", i, PeerId(ed, ed.heap[a].m_inputs[i])>> :
        i \in 1..Len(ed.heap[a].m_inputs)}
    \cup {<<ed.heap[a].m_id, "out", j, PeerId(ed, ed.heap[a].m_outputs[j])>> :
             j \in 1..Len(ed.heap[a].m_outputs)}

PinsById(ed) == UNION {NodePins(ed, a) : a \in Live(ed)}

\* Editor value after is a completed run that shows the pins of before.
SamePins(after, before) == after.trap = "none" /\ PinsById(after) = PinsById(before)

\* The last operation was a RemoveNode command that execute ran itself.
Removed == hist.op = "remove_node" /\ hist.done /\ ~hist.merge

\* C3: right after a RemoveNode command was executed, undoing it gives every
\* pin of the removed node and of every other node the peer it had before.
C3_RemoveUndoRestoresPins ==
    Removed => \A a \in UndoAllocs(Session) : SamePins(undo(Session, a).ed, hist.pre.ed)

Distinct(ed) == \A a, b \in Live(ed) : a # b => ed.heap[a].m_id # ed.heap[b].m_id

\* The ids a command on the stack can give a node again.
StackIds(S) ==
    {S.stack[i].m_node_id : i \in {k \in 1..Len(S.stack) : S.stack[k].cmd = "remove_node"}}
    \cup {S.stack[i].m_id : i \in {k \in 1..Len(S.stack) : S.stack[k].cmd = "create_node"}}

LiveIds(ed) == {ed.heap[a].m_id : a \in Live(ed)}

\* The last operation was a CreateNode command that execute ran itself.
Created == hist.op = "create_node" /\ hist.done /\ ~hist.merge

\* C6: the ids of the live nodes of both stages are pairwise distinct, and the
\* id a new node has just got is not the id of a node that was live, nor one a
\* command that was on the stack can restore.
C6_IdsDistinct ==
    /\ Distinct(Ed)
    /\ Created => m_last_node_id \notin LiveIds(hist.pre.ed) \cup StackIds(hist.pre)

\* The last operation was a command handed to execute that returned.
Executed ==
    /\ hist.op \in {"create_node", "create_connection", "move_node", "remove_node"}
    /\ hist.done

\* The commands up to the index the operation started from.
Kept == SubSeq(hist.pre.stack, 1, hist.pre.idx + 1)

\* C5: after execute the commands beyond the index it started from are gone,
\* the ones up to it are kept (the top one having taken the new command in, or
\* the new command appended), the index is the last entry and canRedo is false.
C5_ExecuteTruncates ==
    Executed =>
       /\ m_undo_stack_idx = Len(m_undo_stack) - 1
       /\ ~canRedo(Session)
       /\ Len(m_undo_stack) = Len(Kept) + (IF hist.merge THEN 0 ELSE 1)
       /\ \A i \in 1..(Len(Kept) - (IF hist.merge THEN 1 ELSE 0)) : m_undo_stack[i] = Kept[i]

\* An execute that started below the top of the stack.
C5_Witness == Executed /\ hist.pre.idx < Len(hist.pre.stack) - 1

\* The last operation was a move, the second or a later one of its run.
MovedAgain == hist.op = "move_node" /\ hist.done /\ hist.run.count >= 2

\* Where the node an id resolves to is.
PosOf(ed, id) == ed.heap[getNodeByID(ed, id)].m_pos

\* C4 as stated: after a run of two or more moves of one node the stack has one
\* entry more than the commands kept when the run began, the node is at the
\* last target, and one undo puts it where it was before the first move.
C4_RunIsOneNewEntry ==
    MovedAgain =>
       /\ Len(m_undo_stack) = hist.run.len + 1
       /\ PosOf(Ed, hist.node) = hist.pos
       /\ PosOf(undo(Session, NULL).ed, hist.node) = hist.run.pos

\* C4, amended: the run is one entry, new unless its first move merged into a
\* Move of the same node already at the index; the node is at the last target,
\* and one undo puts it where that entry's first move found it.
C4_RunIsOneEntry ==
    MovedAgain =>
       /\ Len(m_undo_stack) = hist.run.len + (IF hist.run.merged THEN 0 ELSE 1)
       /\ m_undo_stack[m_undo_stack_idx + 1].cmd = "move_node"
       /\ PosOf(Ed, hist.node) = hist.pos
       /\ PosOf(undo(Session, NULL).ed, hist.node) = hist.run.old
       /\ ~hist.run.merged => hist.run.old = hist.run.pos

\* A run of moves whose first move was appended, ending away from its start.
C4_Witness == MovedAgain /\ ~hist.run.merged /\ hist.pos # hist.run.pos

\* Pins are named by the node's address, the direction and the 1-based index.
InPin(ed, pin) == ed.heap[pin[1]].m_inputs[pin[3]]

OutPin(ed, pin) == ed.heap[pin[1]].m_outputs[pin[3]]

PinValue(ed, pin) == IF pin[2] = "in" THEN InPin(ed, pin) ELSE OutPin(ed, pin)

PinsAt(ed, a) ==
    {<<a, "in", i>> : i \in 1..Len(ed.heap[a].m_inputs)}
    \cup {<<a, "out", j>> : j \in 1..Len(ed.heap[a].m_outputs)}

PinsIn(ed) == UNION {PinsAt(ed, a) : a \in Live(ed)}

\* The pin of peer that the scan of removeConnection finds for node: none when
\* the pin was empty or the peer does not refer back.
PeerInput(ed, peer, node) ==
    IF peer = NULL \/ IndexOf(ed.heap[peer].m_inputs, node) < 0 THEN {}
    ELSE {<<peer, "in", IndexOf(ed.heap[peer].m_inputs, node) + 1>>}

PeerOutput(ed, peer, node) ==
    IF peer = NULL \/ IndexOf(ed.heap[peer].m_outputs, node) < 0 THEN {}
    ELSE {<<peer, "out", IndexOf(ed.heap[peer].m_outputs, node) + 1>>}

\* The pins the previous peers of the two connected pins referred back with.
Severed(before, from, to) ==
    PeerInput(before, OutPin(before, from), from[1]) \cup PeerOutput(before, InPin(before, to), to[1])

\* The effect of a connection from output pin from to input pin to: the two
\* pins refer to each other, the pins in emptied are empty, no other pin changed.
ConnectEffect(before, after, from, to, emptied) ==
    /\ OutPin(after, from) = to[1]
    /\ InPin(after, to) = from[1]
    /\ \A pin \in emptied : PinValue(after, pin) = NULL
    /\ \A pin \in PinsIn(before) \ ({from, to} \cup emptied) :
          PinValue(after, pin) = PinValue(before, pin)

FromPin == <<getNodeByID(hist.pre.ed, hist.node), "out", hist.pin + 1>>

ToPin == <<getNodeByID(hist.pre.ed, hist.to), "in", hist.to_pin + 1>>

\* C10 as stated: after a connection the two pins refer to each other, the pin
\* of each previous peer that referred back is empty, and no other pin changed.
C10_ConnectFrame ==
    Connected => ConnectEffect(hist.pre.ed, Ed, FromPin, ToPin, Severed(hist.pre.ed, FromPin, ToPin))

\* C10, amended: the same, except that a previous peer's pin that is one of the
\* two connected pins holds the new connection.
C10_ConnectFrameAmended ==
    Connected =>
       ConnectEffect(hist.pre.ed, Ed, FromPin, ToPin,
                     Severed(hist.pre.ed, FromPin, ToPin) \ {FromPin, ToPin})

\* A connection that took both pins from other peers.
C10_Witness ==
    /\ Connected
    /\ OutPin(hist.pre.ed, FromPin) \notin {NULL, ToPin[1]}
    /\ InPin(hist.pre.ed, ToPin) \notin {NULL, FromPin[1]}

\* C7: no run of generate fails an assertion, reads freed memory or follows a
\* null or wild pointer.
C7_GenerateNeverFails == ~(fault.op = "generate" /\ fault.trap \in {"soft", "hard"})

\* C8: every run of generate returns.
C8_GenerateTerminates == ~(fault.op = "generate" /\ fault.trap = "diverge")

\* A node as a file can tell it: id, kind, stage, position, payload and the ids
\* on its pins.
Described(ed, a, stage) ==
    [id |-> ed.heap[a].m_id, type |-> ed.heap[a].m_type, stage |-> stage,
     pos |-> ed.heap[a].m_pos, payload |-> ed.heap[a].m_payload,
     inputs |-> [i \in 1..Len(ed.heap[a].m_inputs) |-> PeerId(ed, ed.heap[a].m_inputs[i])],
     outputs |-> [j \in 1..Len(ed.heap[a].m_outputs) |-> PeerId(ed, ed.heap[a].m_outputs[j])]]

Graph(ed) ==
    {Described(ed, ed.frag[i], "FRAGMENT") : i \in 1..Len(ed.frag)}
    \cup {Described(ed, ed.vert[i], "VERTEX") : i \in 1..Len(ed.vert)}

\* C9: loading what save writes of the graph gives the same nodes by id, each
\* of the same kind, stage, position and payload, with the same peers on its pins.
C9_SaveLoadRoundTrip == Graph(load(Session, save(Ed)).ed) = Graph(Ed)

\* The stage collection a node is in.
StageOf(ed, a) ==
    IF References(ed.frag, a) THEN "FRAGMENT"
    ELSE IF References(ed.vert, a) THEN "VERTEX" ELSE "NONE"

\* The live nodes other than node, each as a file can tell it.
Others(ed, node) == {Described(ed, b, StageOf(ed, b)) : b \in Live(ed) \ {node}}

\* Editor value after shows the node that had id in before again: live, of the
\* same kind, at the same position, in the same stage, all other nodes as they were.
NodeRestored(after, before, id) ==
    /\ after.trap = "none"
    /\ getNodeByID(after, id) # NULL
    /\ after.heap[getNodeByID(after, id)].m_type = before.heap[getNodeByID(before, id)].m_type
    /\ after.heap[getNodeByID(after, id)].m_pos = before.heap[getNodeByID(before, id)].m_pos
    /\ StageOf(after, getNodeByID(after, id)) = StageOf(before, getNodeByID(before, id))
    /\ Others(after, getNodeByID(after, id)) = Others(before, getNodeByID(before, id))

\* C11: right after a RemoveNode command was executed, undoing it gives a live
\* node with the removed node's id, kind, position and stage, and leaves every
\* other node as it was before the removal.
C11_RemoveUndoRestoresNode ==
    Removed => \A a \in UndoAllocs(Session) : NodeRestored(undo(Session, a).ed, hist.pre.ed, hist.node)

\* C12: the undo index is between -1 and the last stack position; the entries
\* up to it are the applied commands (their last call was execute) and the
\* entries above it the undone ones (their last call was undo); canUndo says
\* that the index is at least 0 and canRedo that it is below the last position.
C12_IndexSplitsStack ==
    /\ -1 <= m_undo_stack_idx
    /\ m_undo_stack_idx <= Len(m_undo_stack) - 1
    /\ Len(hist.applied) = Len(m_undo_stack)
    /\ \A i \in 1..Len(m_undo_stack) : hist.applied[i] <=> (i - 1 <= m_undo_stack_idx)
    /\ canUndo(Session) <=> m_undo_stack_idx >= 0
    /\ canRedo(Session) <=> m_undo_stack_idx < Len(m_undo_stack) - 1

\* An undo has left an applied command below an undone one.
C12_Witness ==
    /\ hist.op = "undo" /\ hist.done
    /\ m_undo_stack_idx >= 0
    /\ m_undo_stack_idx < Len(m_undo_stack) - 1

\* The program's editor state is what a command's call left in r: the same
\* collections and id counter, the same node objects.
LeftBy(r) ==
    /\ m_fragment_nodes = r.ed.frag
    /\ m_vertex_nodes = r.ed.vert
    /\ m_last_node_id = r.ed.last
    /\ \A x \in Addr : /\ heap[x].alloc = r.ed.heap[x].alloc
                       /\ heap[x].alloc => heap[x] = r.ed.heap[x]

\* The stack is the one the operation started from, but for position k, which
\* holds command c.
StackBut(k, c) ==
    /\ Len(m_undo_stack) = Len(hist.pre.stack)
    /\ m_undo_stack[k] = c
    /\ \A i \in 1..Len(m_undo_stack) : i # k => m_undo_stack[i] = hist.pre.stack[i]

\* C13: undo with nothing applied and redo at the last entry change nothing;
\* otherwise undo is the undo of the command at the index and the index minus
\* one, redo is the execute of the command above the index and the index plus
\* one, and no other stack entry is touched.
C13_UndoRedoStep ==
    /\ ~canUndo(Session) => undo(Session, NULL) = Session
    /\ ~canRedo(Session) => redo(Session, NULL) = Session
    /\ (hist.op = "undo" /\ hist.done) =>
          /\ m_undo_stack_idx = hist.pre.idx - 1
          /\ \E a \in UndoAllocs(hist.pre) :
                /\ LeftBy(CmdUndo(hist.pre.ed, hist.pre.stack[hist.pre.idx + 1], a))
                /\ StackBut(hist.pre.idx + 1,
                            CmdUndo(hist.pre.ed, hist.pre.stack[hist.pre.idx + 1], a).c)
    /\ (hist.op = "redo" /\ hist.done) =>
          /\ m_undo_stack_idx = hist.pre.idx + 1
          /\ \E a \in RedoAllocs(hist.pre) :
                /\ LeftBy(CmdExecute(hist.pre.ed, hist.pre.stack[hist.pre.idx + 2], a))
                /\ StackBut(hist.pre.idx + 2,
                            CmdExecute(hist.pre.ed, hist.pre.stack[hist.pre.idx + 2], a).c)

\* A redo has reached the last entry of a stack of several commands: the next
\* redo changes nothing.
C13_Witness ==
    /\ hist.op = "redo" /\ hist.done
    /\ ~canRedo(Session)
    /\ Len(m_undo_stack) >= 2

\* The node ids a session file holds, over both stages.
FileIds(file) ==
    {file.vertex.nodes[i].id : i \in 1..Len(file.vertex.nodes)}
    \cup {file.fragment.nodes[i].id : i \in 1..Len(file.fragment.nodes)}

\* The id addNode gives the next node it is handed.
NextId(ed) == addNode(ed, Lowest(Addr), <<0, 0>>, "VERTEX").heap[Lowest(Addr)].m_id

\* The last operation was a load that opened the file and returned.
Loaded == hist.op = "load" /\ hist.done

\* C14: after a load the id addNode gives next is greater than every node id
\* of the file, of the vertex and of the fragment collection, and is the id of
\* no loaded node.
C14_LoadRaisesCounter ==
    Loaded =>
       /\ \A id \in FileIds(m_file) : NextId(Ed) > id
       /\ NextId(Ed) \notin LiveIds(Ed)

\* A file was loaded whose ids have a gap and whose highest id is in the vertex
\* collection, which is read first.
C14_Witness ==
    /\ Loaded
    /\ Len(m_file.fragment.nodes) >= 1
    /\ \E i \in 1..Len(m_file.vertex.nodes) :
          /\ m_file.vertex.nodes[i].id > Cardinality(FileIds(m_file))
          /\ \A id \in FileIds(m_file) : id <= m_file.vertex.nodes[i].id

\* The last operation was a Generate that returned.
Generated == hist.op = "generate" /\ hist.done

\* The statement each terminal kind falls back to.
Fallback(ed, node) ==
    CASE ed.heap[node].m_type = "FRAGMENT_OUTPUT" -> <<"\tgl_FragColor = vec4(1, 0, 1, 1);\n">>
      [] ed.heap[node].m_type = "POSITION_OUTPUT" -> <<"\tgl_Position = vec4(1, 0, 1, 1);\n">>
      [] ed.heap[node].m_type = "VERTEX_OUTPUT" ->
            <<"\t", getVertexOutputName(ed.heap[node].m_payload.m_output_idx),
              " = vec4(1.0, 0.0, 1.0, 0.0);">>

\* The main body of a stage in which each terminal with an unconnected input
\* stands for its fallback statement alone; nodes that are no terminals stand
\* for nothing.
BodyWithFallbacks(ed, nodes) ==
    Flatten([i \in 1..Len(nodes) |->
                IF ~IsTerminal(ed.heap[nodes[i]].m_type) THEN <<>>
                ELSE IF ed.heap[nodes[i]].m_inputs[1] = NULL THEN Fallback(ed, nodes[i])
                ELSE NodeWrites(ed, nodes[i])])

\* The graph newGraph leaves.
DefaultGraph(ed) ==
    /\ Len(ed.frag) = 1 /\ ed.heap[ed.frag[1]].m_type = "FRAGMENT_OUTPUT"
    /\ ed.heap[ed.frag[1]].m_inputs = <<NULL>>
    /\ Len(ed.vert) = 1 /\ ed.heap[ed.vert[1]].m_type = "POSITION_OUTPUT"
    /\ ed.heap[ed.vert[1]].m_inputs = <<NULL>>

\* C15: in what generate writes, a terminal whose input is unconnected
\* contributes its fallback statement and nothing else; for the graph newGraph
\* leaves, the fragment main body is "gl_FragColor = vec4(1, 0, 1, 1);" and the
\* vertex main body "gl_Position = vec4(1, 0, 1, 1);" (one indented line each).
C15_TerminalFallback ==
    Generated =>
       /\ hist.out.vs.wrote => hist.out.vs.text.main = BodyWithFallbacks(Ed, m_vertex_nodes)
       /\ hist.out.fs.wrote => hist.out.fs.text.main = BodyWithFallbacks(Ed, m_fragment_nodes)
       /\ DefaultGraph(Ed) =>
             /\ hist.out.vs.wrote = hist.out.vs.opened
             /\ hist.out.fs.wrote = hist.out.fs.opened
             /\ hist.out.vs.opened =>
                   hist.out.vs.text.main = <<"\tgl_Position = vec4(1, 0, 1, 1);\n">>
             /\ hist.out.fs.opened =>
                   hist.out.fs.text.main = <<"\tgl_FragColor = vec4(1, 0, 1, 1);\n">>

\* Generate ran on a vertex stage with an unconnected vertex output and a
\* connected terminal.
C15_Witness ==
    /\ Generated /\ hist.out.vs.wrote /\ hist.out.fs.wrote
    /\ \E i \in 1..Len(m_vertex_nodes) :
          /\ heap[m_vertex_nodes[i]].m_type = "VERTEX_OUTPUT"
          /\ heap[m_vertex_nodes[i]].m_inputs = <<NULL>>
    /\ \E j \in 1..Len(m_vertex_nodes) :
          /\ IsTerminal(heap[m_vertex_nodes[j]].m_type)
          /\ heap[m_vertex_nodes[j]].m_inputs # <<NULL>>

\* Generate ran on the graph newGraph leaves.
C15_DefaultWitness ==
    Generated /\ DefaultGraph(Ed) /\ hist.out.vs.wrote /\ hist.out.fs.wrote

\* The fragment stage holds its terminal, two float constants of values 1 and
\* 2 and a multiply node: constant 1 feeds input 0 of the product, constant 2
\* input 1, and the product feeds the terminal (c1, c2, m, f are their
\* addresses).
ProductOf(ed, c1, c2, m, f) ==
    /\ Len(ed.frag) = 4
    /\ {ed.frag[i] : i \in 1..Len(ed.frag)} = {c1, c2, m, f}
    /\ ed.heap[c1].m_type = "FLOAT_CONST" /\ ed.heap[c1].m_payload.m_value = 1
    /\ ed.heap[c2].m_type = "FLOAT_CONST" /\ ed.heap[c2].m_payload.m_value = 2
    /\ c1 # c2
    /\ ed.heap[m].m_type = "MULTIPLY" /\ ed.heap[m].m_inputs = <<c1, c2>>
    /\ ed.heap[f].m_type = "FRAGMENT_OUTPUT" /\ ed.heap[f].m_inputs = <<m>>

ProductGraph(ed) == \E c1, c2, m, f \in Addr : ProductOf(ed, c1, c2, m, f)

\* Lines of a text that declare a float: the type name is a piece of its own.
FloatDeclarations(text) == Cardinality({i \in 1..Len(text) : text[i] = "float"})

\* Assignments of a product.
Products(text) == Cardinality({i \in 1..Len(text) : text[i] = " * "})

\* The text ends with the assignment of a temporary to gl_FragColor.
FeedsFragColor(text) ==
    /\ Len(text) >= 4
    /\ SubSeq(text, Len(text) - 3, Len(text) - 2) = <<"\tgl_FragColor = ", "v">>
    /\ text[Len(text)] = ";\n"

\* C16 as stated: the fragment main body generated for the product graph holds
\* (at least) two float declarations and one multiply-form assignment, and ends
\* with the assignment to gl_FragColor.
C16_TwoFloatDeclarations ==
    (Generated /\ hist.out.fs.wrote /\ ProductGraph(hist.pre.ed)) =>
       /\ FloatDeclarations(hist.out.fs.text.main) >= 2
       /\ Products(hist.out.fs.text.main) = 1
       /\ FeedsFragColor(hist.out.fs.text.main)

\* C16: the fragment main body generated for the product graph is one float
\* declaration, that of the product, whose operands are the values of the two
\* constants written in place (the constants declare nothing), followed by the
\* assignment of the product's temporary to gl_FragColor.
C16_ProductOfLiterals ==
    \A c1, c2, m, f \in Addr :
       (Generated /\ hist.out.fs.wrote /\ ProductOf(hist.pre.ed, c1, c2, m, f)) =>
          /\ hist.out.fs.text.main =
                <<"\t", "float", " v", ToString(hist.pre.ed.heap[m].m_id), " = ",
                  ToString(1), " * ", ToString(2), ";\n",
                  "\tgl_FragColor = ", "v", ToString(hist.pre.ed.heap[m].m_id), ";\n">>
          /\ FloatDeclarations(hist.out.fs.text.main) = 1
          /\ Products(hist.out.fs.text.main) = 1
          /\ FeedsFragColor(hist.out.fs.text.main)

\* Generate ran on the product graph and wrote the fragment stage.
C16_Witness == Generated /\ hist.out.fs.wrote /\ ProductGraph(hist.pre.ed)

\* The last operation was a save, a load or a Generate one of whose files
\* could not be opened.
FailedSave == hist.op = "save_failed" /\ hist.done

FailedLoad == hist.op = "load_failed" /\ hist.done

FailedGenerate ==
    Generated /\ ~(hist.out.vs.opened /\ hist.out.fs.opened /\ hist.out.shd.opened)

\* C17 as stated: after a save, a Generate or a load whose file could not be
\* opened the collections, the nodes, the undo stack, its index and the id
\* counter are what they were before the call.
C17_FailedOpenKeepsState ==
    (FailedSave \/ FailedGenerate \/ FailedLoad) => Session = hist.pre

\* C17: a save or a Generate whose file could not be opened leaves the
\* collections, the nodes, the undo stack, its index and the id counter what
\* they were; a load whose file could not be opened has cleared the session
\* first, so it leaves what clear leaves, and a session that had nodes or
\* commands is not what it was.
C17_FailedOpenAmended ==
    /\ (FailedSave \/ FailedGenerate) => Session = hist.pre
    /\ FailedLoad =>
          /\ m_fragment_nodes = clear(hist.pre).ed.frag
          /\ m_vertex_nodes = clear(hist.pre).ed.vert
          /\ m_undo_stack = clear(hist.pre).stack
          /\ m_undo_stack_idx = clear(hist.pre).idx
          /\ m_last_node_id = clear(hist.pre).ed.last
          /\ (Nodes(hist.pre.ed) # <<>> \/ hist.pre.stack # <<>>) => Session # hist.pre

\* A save could not open its file in a session with commands on the stack and
\* more nodes than a new graph has.
C17_Witness ==
    FailedSave /\ hist.pre.stack # <<>> /\ Len(Nodes(hist.pre.ed)) > 2

\* C18: a load that could not open its file leaves both collections empty, no
\* node allocated, the undo stack empty with index -1 and the id counter 0; a
\* save or a Generate that could not open its file leaves every node and both
\* collections as they were.
C18_FailedLoadClears ==
    /\ FailedLoad =>
          /\ m_fragment_nodes = <<>> /\ m_vertex_nodes = <<>>
          /\ \A a \in Addr : ~heap[a].alloc
          /\ m_undo_stack = <<>> /\ m_undo_stack_idx = -1
          /\ m_last_node_id = 0
    /\ (FailedSave \/ FailedGenerate) => Ed = hist.pre.ed

\* A load could not open its file in a session with nodes in both stages,
\* commands on the stack and a raised id counter.
C18_Witness ==
    /\ FailedLoad
    /\ hist.pre.ed.frag # <<>> /\ hist.pre.ed.vert # <<>>
    /\ hist.pre.stack # <<>> /\ hist.pre.idx >= 0
    /\ hist.pre.ed.last > 2

\* The last operation was a File, New that returned.
Renewed == hist.op = "newGraph" /\ hist.done

\* C19: clear leaves both collections empty, every node deleted, the undo
\* stack empty and its index -1, whatever the session; after
\* newGraph the fragment collection is one fragment output, the vertex
\* collection one position output, the two have distinct ids and unconnected
\* inputs, no other node is allocated, and the undo stack is empty.
C19_ClearAndNewGraph ==
    /\ LET cleared == clear(Session)
       IN /\ cleared.ed.frag = <<>> /\ cleared.ed.vert = <<>>
          /\ \A a \in Addr : ~cleared.ed.heap[a].alloc
          /\ cleared.stack = <<>> /\ cleared.idx = -1
    /\ Renewed =>
          /\ Len(m_fragment_nodes) = 1 /\ Len(m_vertex_nodes) = 1
          /\ heap[m_fragment_nodes[1]].m_type = "FRAGMENT_OUTPUT"
          /\ heap[m_vertex_nodes[1]].m_type = "POSITION_OUTPUT"
          /\ heap[m_fragment_nodes[1]].m_id # heap[m_vertex_nodes[1]].m_id
          /\ heap[m_fragment_nodes[1]].m_inputs = <<NULL>>
          /\ heap[m_vertex_nodes[1]].m_inputs = <<NULL>>
          /\ \A a \in Addr : heap[a].alloc <=> a \in {m_fragment_nodes[1], m_vertex_nodes[1]}
          /\ m_undo_stack = <<>> /\ m_undo_stack_idx = -1

\* File, New was used in a session with more than two nodes, a connected pin
\* and commands on the stack.
C19_Witness ==
    /\ Renewed
    /\ Len(Nodes(hist.pre.ed)) > 2
    /\ hist.pre.stack # <<>>
    /\ \E a \in Live(hist.pre.ed) : \E i \in 1..Len(hist.pre.ed.heap[a].m_inputs) :
          hist.pre.ed.heap[a].m_inputs[i] # NULL

Occupied(pins) == {i \in 1..Len(pins) : pins[i] # NULL}

\* The pins (of all live nodes, as pairs of node and index) that refer to b.
InputPinsTo(ed, b) ==
    UNION {{<<a, i>> : i \in {k \in Occupied(ed.heap[a].m_inputs) : ed.heap[a].m_inputs[k] = b}} :
              a \in Live(ed)}

OutputPinsTo(ed, b) ==
    UNION {{<<a, j>> : j \in {k \in Occupied(ed.heap[a].m_outputs) : ed.heap[a].m_outputs[k] = b}} :
              a \in Live(ed)}

\* C20: in every state each occupied output pin refers to a live node exactly
\* one input pin of which refers back, no live node is referred to by more
\* input pins than it has occupied output pins, and none by more output pins
\* than it has occupied input pins.
C20_OneToOnePairing ==
    \A a \in Live(Ed) :
       /\ \A j \in Occupied(heap[a].m_outputs) :
             /\ heap[a].m_outputs[j] \in Live(Ed)
             /\ Cardinality({i \in Occupied(heap[heap[a].m_outputs[j]].m_inputs) :
                                heap[heap[a].m_outputs[j]].m_inputs[i] = a}) = 1
       /\ Cardinality(InputPinsTo(Ed, a)) <= Cardinality(Occupied(heap[a].m_outputs))
       /\ Cardinality(OutputPinsTo(Ed, a)) <= Cardinality(Occupied(heap[a].m_inputs))

\* C21: in every state each live node has as many input pins and as many
\* output pins as the constructor of its kind gave it.
C21_PinCountsFixed ==
    \A a \in Live(Ed) :
       /\ Len(heap[a].m_inputs) = InputsCount(heap[a].m_type)
       /\ Len(heap[a].m_outputs) = OutputsCount(heap[a].m_type)

\* The kinds of a stage: those the Add menu offers for it, and the position
\* output newGraph puts into the vertex stage.
StageKind(type, shader_type) ==
    LegalIn(type, shader_type) \/ (type = "POSITION_OUTPUT" /\ shader_type = "VERTEX")

\* C22: in every state no node is in both stage collections, every node of
\* the vertex collection has a kind legal for the vertex stage and every node
\* of the fragment collection a kind legal for the fragment stage.
C22_NodesConfinedToStage ==
    /\ \A i \in 1..Len(m_fragment_nodes), j \in 1..Len(m_vertex_nodes) :
          m_fragment_nodes[i] # m_vertex_nodes[j]
    /\ \A i \in 1..Len(m_fragment_nodes) : StageKind(heap[m_fragment_nodes[i]].m_type, "FRAGMENT")
    /\ \A j \in 1..Len(m_vertex_nodes) : StageKind(heap[m_vertex_nodes[j]].m_type, "VERTEX")

\* The nodes the output pins of a refer to.
Fed(ed, a) == {ed.heap[a].m_outputs[j] : j \in Occupied(ed.heap[a].m_outputs)}

RECURSIVE Downstream(_, _, _)
\* The nodes reached from the nodes of front in at most steps further connections.
Downstream(ed, front, steps) ==
    IF steps = 0 THEN front
    ELSE Downstream(ed, front \cup UNION {Fed(ed, a) : a \in front \cap Live(ed)}, steps - 1)

\* C23: in every state no live node's output reaches, through zero or more
\* intermediate nodes, an input of that node.
C23_NoCycle ==
    \A a \in Live(Ed) : a \notin Downstream(Ed, Fed(Ed, a), MaxAddr)

\* C24: in every state the fragment collection holds a fragment output and
\* the vertex collection a position output.
C24_TerminalsPresent ==
    /\ \E i \in 1..Len(m_fragment_nodes) : heap[m_fragment_nodes[i]].m_type = "FRAGMENT_OUTPUT"
    /\ \E j \in 1..Len(m_vertex_nodes) : heap[m_vertex_nodes[j]].m_type = "POSITION_OUTPUT"

\* The command at the index when execute was called is a move of the node the
\* new command, a move too, is about.
SameNodeMove ==
    /\ hist.op = "move_node"
    /\ hist.pre.idx >= 0
    /\ hist.pre.stack[hist.pre.idx + 1].cmd = "move_node"
    /\ hist.pre.stack[hist.pre.idx + 1].m_node = hist.node

\* C25: execute merges the new command into the one at the index only when
\* both are moves of one node id; every other command is a new entry above
\* the commands up to the index: the stack is those commands and the new one,
\* and the index is that of the new one.
C25_MergeOnlyMoves ==
    Executed =>
       IF SameNodeMove
       THEN /\ Len(m_undo_stack) = hist.pre.idx + 1
            /\ m_undo_stack_idx = hist.pre.idx
            /\ m_undo_stack[m_undo_stack_idx + 1].m_new_pos = hist.pos
       ELSE /\ Len(m_undo_stack) = hist.pre.idx + 2
            /\ m_undo_stack_idx = hist.pre.idx + 1
            /\ m_undo_stack[Len(m_undo_stack)].cmd = hist.op
            /\ SubSeq(m_undo_stack, 1, hist.pre.idx + 1) = Kept

\* Session S undone and redone once shows the graph of S: the same node ids
\* with the same kinds, stages, positions and payloads and the same ids on
\* every pin, wherever the nodes built on the way are put.
RedoneSame(S) ==
    \A a \in UndoAllocs(S) :
       \A b \in RedoAllocs(undo(S, a)) :
          /\ redo(undo(S, a), b).ed.trap = "none"
          /\ Graph(redo(undo(S, a), b).ed) = Graph(S.ed)

\* C26: right after a command was executed, undo followed by redo gives the
\* graph execute left.
C26_ExecuteUndoRedo == Executed => RedoneSame(Session)

\* The last operation undid a CreateNode command and returned.
CreationUndone ==
    /\ hist.op = "undo" /\ hist.done
    /\ hist.pre.idx >= 0
    /\ hist.pre.stack[hist.pre.idx + 1].cmd = "create_node"

\* The node the last operation handed to destroyNode.
DestroyedNode ==
    IF hist.op = "undo" THEN hist.pre.stack[hist.pre.idx + 1].m_node
    ELSE getNodeByID(hist.pre.ed, hist.node)

\* The pins after are the pins before with every reference to node emptied.
Unhooked(after, before, node) ==
    /\ Len(after) = Len(before)
    /\ \A i \in 1..Len(before) : after[i] = IF before[i] = node THEN NULL ELSE before[i]

\* C27: after a node was destroyed, by RemoveNode execute or by CreateNode
\* undo, it is in neither collection, every other node is still live, each of
\* their pins that referred to it is empty and each other pin is as it was.
C27_DestroySevers ==
    (Removed \/ CreationUndone) =>
       /\ DestroyedNode \notin Live(Ed)
       /\ \A a \in Live(hist.pre.ed) \ {DestroyedNode} :
             /\ a \in Live(Ed)
             /\ Unhooked(heap[a].m_inputs, hist.pre.ed.heap[a].m_inputs, DestroyedNode)
             /\ Unhooked(heap[a].m_outputs, hist.pre.ed.heap[a].m_outputs, DestroyedNode)

\* The ids a saved pin list names.
SavedIds(pins) == {pins[i][1] : i \in {k \in 1..Len(pins) : pins[k][1] >= 0}}

\* The node ids command c hands to getNodeByID in its execute, or in its undo
\* (the undo of a removal has rebuilt the node itself by then).
IdsUsed(c, undoing) ==
    CASE c.cmd = "move_node" -> {c.m_node}
      [] c.cmd = "create_connection" ->
            {c.m_from}
            \cup (IF undoing /\ c.m_before_to < 0 THEN {} ELSE IF undoing THEN {c.m_before_to} ELSE {c.m_to})
            \cup (IF undoing /\ c.m_before_from >= 0 THEN {c.m_before_from, c.m_to} ELSE {})
      [] c.cmd = "remove_node" ->
            IF undoing
            THEN (SavedIds(Head(c.m_blob).conns.inputs) \cup SavedIds(Head(c.m_blob).conns.outputs))
                    \ {c.m_node_id}
            ELSE {c.m_node_id}
      [] c.cmd = "create_node" -> {}

Resolved(ed, ids) == \A id \in ids : getNodeByID(ed, id) # NULL

\* C28: the node a move, a connection or a removal was asked for existed when
\* the command was built, and every id the command an undo undid or a redo
\* executed handed to getNodeByID was that of a live node.
C28_IdsResolve ==
    /\ hist.op \in {"move_node", "remove_node"} => Resolved(hist.pre.ed, {hist.node})
    /\ hist.op = "create_connection" => Resolved(hist.pre.ed, {hist.node, hist.to})
    /\ (hist.op = "undo" /\ canUndo(hist.pre)) =>
          Resolved(hist.pre.ed, IdsUsed(hist.pre.stack[hist.pre.idx + 1], TRUE))
    /\ (hist.op = "redo" /\ canRedo(hist.pre)) =>
          Resolved(hist.pre.ed, IdsUsed(hist.pre.stack[hist.pre.idx + 2], FALSE))


\* The pieces that end a declaration of a temporary (the id follows), and the
\* pieces that refer to one.
Declaring == {" v", "\tvec4 v", "\tconst vec4 v"}

Referring == {"v", "\tv"}

\* Every reference to a temporary in a main body follows a declaration of it.
DeclaredBeforeUse(main) ==
    \A i \in 1..(Len(main) - 1) :
       main[i] \in Referring =>
          \E j \in 1..(i - 1) : main[j] \in Declaring /\ main[j + 1] = main[i + 1]

\* C29: in each main body a Generate wrote, every temporary v<id> a statement
\* refers to was declared by an earlier statement of the same body, whichever
\* inputs of the nodes upstream of a terminal are connected.
C29_DeclaredBeforeUse ==
    Generated =>
       /\ hist.out.vs.wrote => DeclaredBeforeUse(hist.out.vs.text.main)
       /\ hist.out.fs.wrote => DeclaredBeforeUse(hist.out.fs.text.main)


\* The nodes of a stage collection, as a set.
Collected(nodes) == {nodes[i] : i \in 1..Len(nodes)}

RECURSIVE Feeding(_, _, _)
\* The nodes reached from the nodes of front by following connected input
\* pins backward, front included, in at most steps rounds.
Feeding(ed, front, steps) ==
    LET fed  == UNION {{ed.heap[n].m_inputs[i] : i \in 1..Len(ed.heap[n].m_inputs)} : n \in front}
        more == front \cup (fed \ {NULL})
    IN IF steps = 0 \/ more = front THEN front ELSE Feeding(ed, more, steps - 1)

\* The terminal nodes of a collection and the nodes upstream of them.
Upstream(ed, nodes) ==
    Feeding(ed, {n \in Collected(nodes) : IsTerminal(ed.heap[n].m_type)}, MaxAddr)

\* The uniforms of a collection in collection order, each as the pieces of its
\* declaration.
UniformsOf(ed, nodes) ==
    LET IsUniform(n) == ed.heap[n].m_type = "UNIFORM"
        uniforms     == SelectSeq(nodes, IsUniform)
    IN [k \in 1..Len(uniforms) |->
          <<"uniform ", ValueTypeText(ed.heap[uniforms[k]].m_payload.m_value_type), " ",
            ed.heap[uniforms[k]].m_payload.m_name, ";\n">>]

\* The text before main declares every uniform of the collection, in order,
\* and nothing else.
PreambleOfAll(text, ed, nodes) ==
    /\ Len(text.before) = 5 * Len(UniformsOf(ed, nodes))
    /\ \A k \in 1..Len(UniformsOf(ed, nodes)) :
          SubSeq(text.before, 5 * k - 4, 5 * k) = UniformsOf(ed, nodes)[k]

\* Every temporary the main body declares or refers to is that of a node
\* upstream of a terminal, and the body is the one the terminals and the
\* nodes upstream of them give on their own.
BodyOfUpstream(text, ed, nodes, shader_type) ==
    LET InBody(n) == n \in Upstream(ed, nodes)
        pruned    == IF shader_type = "FRAGMENT"
                     THEN [ed EXCEPT !.frag = SelectSeq(nodes, InBody)]
                     ELSE [ed EXCEPT !.vert = SelectSeq(nodes, InBody)]
    IN /\ \A i \in 1..(Len(text.main) - 1) :
             text.main[i] \in Declaring \cup Referring =>
                \E n \in Upstream(ed, nodes) : text.main[i + 1] = ToString(ed.heap[n].m_id)
       /\ text.main = Flatten([i \in 1..Len(SelectSeq(nodes, InBody)) |->
                                  IF IsTerminal(ed.heap[SelectSeq(nodes, InBody)[i]].m_type)
                                  THEN NodeWrites(pruned, SelectSeq(nodes, InBody)[i])
                                  ELSE <<>>])

\* C30: what a Generate writes of a stage declares before main the uniform of
\* every node of the stage's collection, in collection order, connected or
\* not; its main body holds statements of the terminals and of the nodes
\* upstream of them only, a node upstream of no terminal adding nothing.
C30_PreambleOfAllBodyOfUpstream ==
    Generated =>
       /\ hist.out.vs.wrote =>
             /\ PreambleOfAll(hist.out.vs.text, Ed, m_vertex_nodes)
             /\ BodyOfUpstream(hist.out.vs.text, Ed, m_vertex_nodes, "VERTEX")
       /\ hist.out.fs.wrote =>
             /\ PreambleOfAll(hist.out.fs.text, Ed, m_fragment_nodes)
             /\ BodyOfUpstream(hist.out.fs.text, Ed, m_fragment_nodes, "FRAGMENT")

\* A node of the collection with no pin connected.
Unconnected(ed, n) ==
    /\ \A i \in 1..Len(ed.heap[n].m_inputs) : ed.heap[n].m_inputs[i] = NULL
    /\ \A i \in 1..Len(ed.heap[n].m_outputs) : ed.heap[n].m_outputs[i] = NULL

\* Generate wrote a vertex stage that holds a named uniform and a texture
\* sample, both with no pin connected: the uniform is declared, and the
\* sample, which would declare its temporary if asked, is not in the body.
C30_Witness ==
    /\ Generated /\ hist.out.vs.wrote
    /\ \E u, s \in Collected(m_vertex_nodes) :
          /\ heap[u].m_type = "UNIFORM" /\ heap[u].m_payload.m_name = "u" /\ Unconnected(Ed, u)
          /\ heap[s].m_type = "SAMPLE" /\ Unconnected(Ed, s)
          /\ NodeWrites(Ed, s) # <<>>
    /\ hist.out.vs.text.before # <<>>


\* The main body declares the temporary of the node with this id.
DeclaresIn(main, id) ==
    \E j \in 1..(Len(main) - 1) : main[j] \in Declaring /\ main[j + 1] = ToString(id)

\* The component a vector merge assigns from input pin i.
Component(i) ==
    CASE i = 0 -> ".xyz = " [] i = 1 -> ".x = " [] i = 2 -> ".y = " [] i = 3 -> ".z = "
      [] OTHER -> ".w = "

\* The main body assigns this component of the temporary of the node with this id.
AssignsIn(main, id, i) ==
    \E j \in 1..(Len(main) - 2) :
       main[j] = "\tv" /\ main[j + 1] = ToString(id) /\ main[j + 2] = Component(i)

\* In a main body, each mix and vector merge upstream of a terminal has the
\* statements of the node on each connected input, a vector merge has its
\* declaration and assigns the components of its connected inputs only.
FansOut(main, ed, nodes) ==
    \A n \in Upstream(ed, nodes) :
       LET In(i) == ed.heap[n].m_inputs[i + 1]
       IN /\ ed.heap[n].m_type \in {"MIX", "VEC4_MERGE"} =>
                \A i \in 0..(Len(ed.heap[n].m_inputs) - 1) :
                   (In(i) # NULL /\ ed.heap[In(i)].m_type \in {"SAMPLE", "VEC4_MERGE", "MIX"}) =>
                      DeclaresIn(main, ed.heap[In(i)].m_id)
          /\ ed.heap[n].m_type = "VEC4_MERGE" =>
                /\ DeclaresIn(main, ed.heap[n].m_id)
                /\ \A i \in 0..(Len(ed.heap[n].m_inputs) - 1) :
                      AssignsIn(main, ed.heap[n].m_id, i) <=> In(i) # NULL

\* C31: in what a Generate writes, a mix and a vector merge have the code of
\* the node on each of their connected inputs and skip the unconnected ones,
\* whichever inputs are connected, and a vector merge declares its vec4 even
\* with no input connected.
C31_FanOutOverConnected ==
    Generated =>
       /\ hist.out.vs.wrote => FansOut(hist.out.vs.text.main, Ed, m_vertex_nodes)
       /\ hist.out.fs.wrote => FansOut(hist.out.fs.text.main, Ed, m_fragment_nodes)


\* The file events of the last operation, one sequence for each file it
\* handled.
LastFileEvents ==
    IF hist.op = "generate"
    THEN {FileEvents(hist.out.vs.opened, hist.out.vs.wrote),
          FileEvents(hist.out.fs.opened, hist.out.fs.wrote)}
    ELSE IF hist.op = "save" THEN {FileEvents(TRUE, hist.done)}
    ELSE IF hist.op = "save_failed" THEN {FileEvents(FALSE, hist.done)}
    ELSE {}

\* C32: generate and save open their file only after the whole content has
\* been buffered: the file is never opened for writing before the content is
\* fully buffered, so that no empty or partial file is left if producing the
\* content fails part-way.
C32_BufferedBeforeOpened ==
    \A events \in LastFileEvents :
       \A i \in 1..Len(events) :
          events[i] = "fopen" => \E j \in 1..(i - 1) : events[j] = "buffered"


\* The resource the last call to the manager acted on, NoResource if none.
Acted ==
    CASE hist.op \in {"load", "unload", "force_unload"} -> hist.res
      [] hist.op = "load_path" -> hist.ret
      [] hist.op \in {"unload_path", "force_unload_path"} -> hist.pre.table[hist.path]
      [] OTHER -> NoResource

\* The paths that have a resource registered.
Registered(table) == {path \in Paths : table[path] # NoResource}

\* C33: of a ResourceManagerBase, an unload invokes doUnload exactly when it
\* brings the reference count to 0, and a load invokes doLoad only if it finds
\* the resource empty; load(path) makes and registers a resource only for a
\* path that has none, so at most once for a path, and a later load of the
\* path returns the same resource with its reference count raised by one.
C33_LoadUnloadCounts ==
    /\ hist.op \in {"unload", "unload_path"} =>
          /\ hist.doLoad = 0 /\ ~hist.created
          /\ m_resources = hist.pre.table
          /\ IF Acted = NoResource THEN hist.doUnload = 0 /\ resources = hist.pre.objs
             ELSE /\ resources[Acted].m_ref_count = hist.pre.objs[Acted].m_ref_count - 1
                  /\ hist.doUnload = (IF resources[Acted].m_ref_count = 0 THEN 1 ELSE 0)
    /\ hist.op \in {"load", "load_path"} =>
          /\ hist.doUnload = 0
          /\ hist.doLoad <= 1
          /\ hist.doLoad = 1 => (hist.created \/ hist.pre.objs[Acted].m_state = "EMPTY")
          /\ resources[Acted].m_ref_count =
                (IF hist.created THEN 0 ELSE hist.pre.objs[Acted].m_ref_count) + 1
          /\ \A path \in Registered(hist.pre.table) : m_resources[path] = hist.pre.table[path]
    /\ hist.op = "load" => ~hist.created /\ m_resources = hist.pre.table
    /\ hist.op = "load_path" =>
          /\ hist.created <=> hist.pre.table[hist.path] = NoResource
          /\ hist.created => hist.pre.objs[hist.ret] = NoObject
          /\ m_resources[hist.path] = hist.ret
          /\ resources[hist.ret].m_path = hist.path
    /\ hist.op \in {"load", "load_path", "unload", "unload_path", "force_unload",
                    "force_unload_path"} =>
          /\ Cardinality(Made) = Cardinality(Registered(m_resources))
          /\ \A path \in Registered(m_resources) : resources[m_resources[path]].m_path = path

\* A path was loaded again after an unload had brought its resource's count
\* to 0: the load made no resource, found the registered one empty, invoked
\* doLoad and returned it with count 1, while the other path has a resource
\* that two loads hold.
C33_Witness ==
    /\ hist.op = "load_path" /\ ~hist.created /\ hist.doLoad = 1
    /\ hist.pre.table[hist.path] = hist.ret
    /\ hist.pre.objs[hist.ret].m_ref_count = 0
    /\ resources[hist.ret].m_ref_count = 1
    /\ \E other \in Registered(m_resources) \ {hist.path} :
          resources[m_resources[other]].m_ref_count = 2

=============================================================================
